---- MODULE Spec2Model ----
(***************************************************************************)
(* Model of the Predbat battery prediction app (src/predbat.py).           *)
(*                                                                         *)
(* Seven state machines share this module:                                 *)
(*   SpecSim  - PredBat.run_prediction, one action per loop iteration      *)
(*   SpecPlan - the optimise / prune part of PredBat.update_pred           *)
(*   SpecTick - the inverter programming part of PredBat.update_pred and   *)
(*              the Inverter driver operations it calls                    *)
(*   SpecCalc - the helper functions of the planner, one call each         *)
(*   SpecRun  - the timer, its callbacks and the step order of update_pred *)
(*   SpecPoll - Inverter.write_and_poll_option, one action per write       *)
(*   SpecScan - PredBat.rate_scan_window, one action per window found      *)
(*                                                                         *)
(* Numbers.  Python floats are modelled by exact integers.  Energies (kWh) *)
(* and money (p) are stored multiplied by 2000, so that dp3 (ceiling to    *)
(* 3 decimals) is the ceiling to a multiple of 2 and dp2 (ceiling to 2     *)
(* decimals) the ceiling to a multiple of 20.  Rates (p/kWh), percentages  *)
(* and minutes are stored as they are.  battery_loss is a fraction         *)
(* num/den; the inputs are chosen so that every product and quotient the   *)
(* code forms is exact.                                                    *)
(*                                                                         *)
(* Exceptions.  A Python exception leaving a function is modelled by the   *)
(* result (or the pc) "raised" together with the exception's name.         *)
(***************************************************************************)
EXTENDS Integers, Sequences, FiniteSets, TLC

VARIABLES
    base,      \* the PredBat fields run_prediction reads (self.*)
    args,      \* the arguments of the run_prediction call
    sim,       \* the locals of run_prediction and its position
    conf,      \* the configuration of the optimiser (get_arg, self.best_*, self.rate_min)
    charge_window_best,     \* self.charge_window_best
    charge_limit_best,      \* self.charge_limit_best
    discharge_window_best,  \* self.discharge_window_best
    discharge_enable_best,  \* self.discharge_enable_best
    pred,      \* the position of update_pred in its optimise / prune part
    charge_limit_percent_best,  \* self.charge_limit_percent_best
    inverter,  \* the inverter's entities in Home Assistant
    tick,      \* the programming part of the latest update_pred run
    calc,      \* one call of a helper function: its arguments and its result
    run        \* the timer, the threads and the position of a whole update_pred run

simvars == <<base, args, sim>>

planvars == <<conf, charge_window_best, charge_limit_best,
              discharge_window_best, discharge_enable_best, pred>>

tickvars == <<charge_limit_percent_best, inverter, tick>>

vars == <<base, args, sim, conf, charge_window_best, charge_limit_best,
          discharge_window_best, discharge_enable_best, pred,
          charge_limit_percent_best, inverter, tick,
          calc, run>>

-----------------------------------------------------------------------------
(* Bounds of the model *)

\* the forecast horizon is at most MaxSteps simulation steps long
MaxSteps == 3

-----------------------------------------------------------------------------
(* Program constants *)

\* 24*60, the minutes of a day
DayMinutes == 1440

\* the default of run_prediction's step argument
StepMinutes == 5

-----------------------------------------------------------------------------
(* Helpers *)

Max2(a, b) == IF a >= b THEN a ELSE b

Min2(a, b) == IF a <= b THEN a ELSE b

\* ceiling of v to a multiple of g (math.ceil(v * k) / k in stored units)
CeilTo(v, g) == ((v + g - 1) \div g) * g

dp2(value) == CeilTo(value, 20)

dp3(value) == CeilTo(value, 2)

RECURSIVE SumFn(_, _)
SumFn(f, S) ==
    IF S = {} THEN 0
    ELSE LET x == CHOOSE y \in S : TRUE
         IN  f[x] + SumFn(f, S \ {x})

\* dict.get(key, 0.0)
DictGet(data, key) == IF key \in DOMAIN data THEN data[key] ELSE 0

EmptyDict == [k \in {} |-> 0]

Raise(st, name) == [st EXCEPT !.pc = "raised", !.err = name]

-----------------------------------------------------------------------------
(* PredBat helpers used by the simulator *)

\* in_charge_window: the (0-based) index of the first window holding
\* minute_abs, or -1
in_charge_window(charge_window, minute_abs) ==
    LET hits == {n \in 1..Len(charge_window) :
                    /\ minute_abs >= charge_window[n].start
                    /\ minute_abs < charge_window[n].end}
    IN  IF hits = {} THEN -1
        ELSE (CHOOSE n \in hits : \A m \in hits : n <= m) - 1

\* get_from_incrementing: the index after "while index < 0: index += 24*60"
IncrIndex(index) == IF index < 0 THEN index % DayMinutes ELSE index

\* get_from_incrementing raises KeyError unless both keys are present
IncrDefined(data, index) ==
    /\ IncrIndex(index) \in DOMAIN data
    /\ (IncrIndex(index) + 1) \in DOMAIN data

get_from_incrementing(data, index) ==
    data[IncrIndex(index)] - data[IncrIndex(index) + 1]

\* max_charge_windows: the last window that ends by end_record_abs, plus one
max_charge_windows(end_record_abs, charge_window) ==
    LET ended == {n \in 1..Len(charge_window) :
                     end_record_abs >= charge_window[n].end}
    IN  IF ended = {} THEN 0
        ELSE CHOOSE n \in ended : \A m \in ended : m <= n

record_length(b, charge_window) ==
    LET max_windows == max_charge_windows(b.forecast_minutes, charge_window)
        end_record  == IF Len(charge_window) > max_windows
                       THEN Min2(b.forecast_minutes,
                                 charge_window[max_windows + 1].start)
                       ELSE b.forecast_minutes
    IN  end_record - b.minutes_now

\* in_octopus_slot for slots that carry no chargeKwh: the load of the first
\* slot holding the minute is car_charging_rate * slot_hours / slot_hours
in_octopus_slot(b, minute) ==
    IF \E n \in 1..Len(b.octopus_slots) :
           /\ minute >= b.octopus_slots[n].start_minutes
           /\ minute < b.octopus_slots[n].end_minutes
    THEN b.car_charging_rate
    ELSE 0

\* value * battery_loss and value / battery_loss
MulLoss(b, value) == (value * b.battery_loss.num) \div b.battery_loss.den

DivLoss(b, value) == (value * b.battery_loss.den) \div b.battery_loss.num

\* rate lookup with the fallback metric
RateCost(rates, fallback, minute_absolute, energy) ==
    IF minute_absolute \in DOMAIN rates
    THEN rates[minute_absolute] * energy
    ELSE fallback * energy

\* the bookkeeping of one imported or exported quantum (only when recording)
AddImport(acc, record, energy, house, battery, cost) ==
    IF record
    THEN [acc EXCEPT !.import_kwh = @ + energy,
                     !.import_kwh_house = @ + (IF house THEN energy ELSE 0),
                     !.import_kwh_battery = @ + (IF battery THEN energy ELSE 0),
                     !.metric = @ + cost]
    ELSE acc

AddExport(acc, record, energy, cost) ==
    IF record
    THEN [acc EXCEPT !.export_kwh = @ + energy, !.metric = @ - cost]
    ELSE acc

-----------------------------------------------------------------------------
(* run_prediction *)

\* the locals of run_prediction before the loop
SimStart(b, a) ==
    [pc |-> "loop", err |-> "none",
     minute |-> 0,
     minute_left |-> b.forecast_minutes,
     soc |-> b.soc_kw,
     soc_min |-> b.soc_max,
     charge_has_run |-> FALSE,
     charge_has_started |-> FALSE,
     discharge_has_run |-> FALSE,
     export_kwh |-> 0,
     import_kwh |-> 0,
     import_kwh_house |-> 0,
     import_kwh_battery |-> 0,
     load_kwh |-> 0,
     pv_kwh |-> 0,
     metric |-> b.cost_today_sofar,
     end_record |-> record_length(b, a.charge_window),
     record |-> TRUE,
     final_soc |-> 0,
     final_soc_bound |-> FALSE,
     predict_soc |-> EmptyDict,
     charge_limit_percent |-> <<>>,
     published |-> "none"]

\* the battery branch of one step: forced charge
StepCharge(b, a, acc, record, minute_absolute, charge_window_n, pv_now, load_yesterday) ==
    LET step    == a.step
        old_soc == acc.soc
        soc     == Min2(old_soc + (b.charge_rate * step),
                        a.charge_limit[charge_window_n + 1])
        energy  == DivLoss(b, Max2(0, soc - old_soc - pv_now)) + load_yesterday
    IN  AddImport([acc EXCEPT !.soc = soc], record, energy, FALSE, TRUE,
                  RateCost(b.rate_import, b.metric_battery, minute_absolute, energy))

\* the battery branch of one step: forced discharge
StepDischarge(b, a, acc, record, minute_absolute, pv_now, load_yesterday) ==
    LET step         == a.step
        battery_draw == IF acc.soc - b.reserve < b.discharge_rate * step
                        THEN acc.soc - b.reserve
                        ELSE b.discharge_rate * step
        drawn        == [acc EXCEPT !.soc = @ - battery_draw,
                                    !.discharge_has_run = TRUE]
        diff         == load_yesterday - pv_now - battery_draw
    IN  IF diff >= 0
        THEN AddImport(drawn, record, diff, TRUE, FALSE,
                       RateCost(b.rate_import, b.metric_house, minute_absolute, diff))
        ELSE AddExport(drawn, record, -diff,
                       RateCost(b.rate_export, b.metric_export, minute_absolute, -diff))

\* the battery branch of one step: self-consumption.  The code has two
\* consecutive ifs, and the else belongs to the second one
StepIdle(b, a, acc, record, minute_absolute, charge_window_n, pv_now, load_yesterday) ==
    LET step     == a.step
        diff0    == load_yesterday - pv_now
        diff     == IF diff0 < 0 THEN MulLoss(b, diff0) ELSE diff0
        in_chg   == b.charge_enable /\ (charge_window_n >= 0)
        over     == -(diff + b.charge_rate * step)
        acc1     == IF diff < -(b.charge_rate * step)
                    THEN AddExport([acc EXCEPT !.soc = @ - b.charge_rate * step],
                                   record, over,
                                   RateCost(b.rate_export, b.metric_export,
                                            minute_absolute, over))
                    ELSE acc
        under    == diff - (b.discharge_rate * step)
    IN  IF diff > (b.discharge_rate * step)
        THEN AddImport([acc1 EXCEPT !.soc = @ - b.discharge_rate * step],
                       record, under, ~in_chg, in_chg,
                       RateCost(b.rate_import,
                                IF in_chg THEN b.metric_battery ELSE b.metric_house,
                                minute_absolute, under))
        ELSE [acc1 EXCEPT !.soc = @ - diff]

\* the clamps with the "Full battery" one left out
StepClampNoFull(b, acc, record, minute_absolute) ==
    LET low == b.reserve - acc.soc
    IN  IF acc.soc < b.reserve
        THEN [AddImport(acc, record, low, TRUE, FALSE,
                        RateCost(b.rate_import, b.metric_house,
                                 minute_absolute, low))
              EXCEPT !.soc = b.reserve]
        ELSE acc

\* "Flat battery" and "Full battery": the two clamps that end a step
StepClamp(b, acc, record, minute_absolute) ==
    LET low  == b.reserve - acc.soc
        acc1 == IF acc.soc < b.reserve
                THEN [AddImport(acc, record, low, TRUE, FALSE,
                                RateCost(b.rate_import, b.metric_house,
                                         minute_absolute, low))
                      EXCEPT !.soc = b.reserve]
                ELSE acc
        high == acc1.soc - b.soc_max
    IN  IF acc1.soc > b.soc_max
        THEN [AddExport(acc1, record, high,
                        RateCost(b.rate_export, b.metric_export,
                                 minute_absolute, high))
              EXCEPT !.soc = b.soc_max]
        ELSE acc1

\* the bookkeeping that follows the clamps
StepRecord(b, a, st, acc, record, charge_window_n) ==
    LET soc         == acc.soc
        started     == st.charge_has_started
                         \/ (b.charge_enable /\ charge_window_n >= 0)
        has_run     == st.charge_has_run
                         \/ (b.charge_enable /\ started /\ charge_window_n < 0)
    IN  [acc EXCEPT
            !.record = record,
            !.predict_soc = [k \in (DOMAIN @) \cup {st.minute} |->
                                IF k = st.minute THEN dp3(soc) ELSE @[k]],
            !.minute_left = IF record /\ soc <= b.reserve
                            THEN Max2(st.minute, @) ELSE @,
            !.final_soc = IF record THEN soc ELSE @,
            !.final_soc_bound = @ \/ record,
            !.charge_has_started = started,
            !.charge_has_run = has_run,
            !.soc_min = IF record /\ (acc.discharge_has_run \/ has_run
                                        \/ ~b.charge_enable)
                        THEN Min2(@, soc) ELSE @,
            !.minute = @ + a.step]

\* one iteration of "while minute < self.forecast_minutes"
SimStep(b, a, st) ==
    LET step             == a.step
        minute           == st.minute
        six_days         == DayMinutes * (b.days_previous - 1)
        minute_yesterday == DayMinutes - minute + six_days
        minute_absolute  == minute + b.minutes_now
        charge_window_n    == in_charge_window(a.charge_window, minute_absolute)
        discharge_window_n == in_charge_window(a.discharge_window, minute_absolute)
        record           == st.record /\ ~(minute >= st.end_record)
        offs             == 0..(step - 1)
        pv_now           == SumFn([o \in offs |->
                                DictGet(a.pv_forecast_minute, minute_absolute + o)], offs)
        load_ok          == \A o \in offs :
                                IncrDefined(a.load_minutes, minute_yesterday - o)
        load0            == SumFn([o \in offs |->
                                get_from_incrementing(a.load_minutes,
                                                      minute_yesterday - o)], offs)
        car_data         == b.car_charging_hold /\ DOMAIN b.car_charging_energy # {}
        car_ok           == \A o \in offs :
                                IncrDefined(b.car_charging_energy, minute_yesterday - o)
        car_energy       == SumFn([o \in offs |->
                                get_from_incrementing(b.car_charging_energy,
                                                      minute_yesterday - o)], offs)
        load1            == IF car_data THEN Max2(0, load0 - car_energy)
                            ELSE IF b.car_charging_hold
                                    /\ load0 >= b.car_charging_threshold * step
                                 THEN 0
                                 ELSE load0
        car_load         == IF b.car_charging_rate # 0
                            THEN in_octopus_slot(b, minute_absolute) ELSE 0
        load_yesterday   == IF car_load > 0
                            THEN load1 + (car_load * step) \div 60
                            ELSE load1
        acc0             == [st EXCEPT !.pv_kwh = @ + pv_now,
                                       !.load_kwh = IF record THEN @ + load_yesterday
                                                    ELSE @]
        charging         == /\ b.charge_enable
                            /\ charge_window_n >= 0
                            /\ acc0.soc < a.charge_limit[charge_window_n + 1]
        discharging      == /\ discharge_window_n >= 0
                            /\ acc0.soc > b.reserve
                            /\ a.discharge_enable[discharge_window_n + 1]
        acc1             == IF charging
                            THEN StepCharge(b, a, acc0, record, minute_absolute,
                                            charge_window_n, pv_now, load_yesterday)
                            ELSE IF discharging
                            THEN StepDischarge(b, a, acc0, record, minute_absolute,
                                               pv_now, load_yesterday)
                            ELSE StepIdle(b, a, acc0, record, minute_absolute,
                                          charge_window_n, pv_now, load_yesterday)
        acc2             == StepClamp(b, acc1, record, minute_absolute)
    IN  IF ~load_ok THEN Raise(st, "KeyError")
        ELSE IF car_data /\ ~car_ok THEN Raise(st, "KeyError")
        ELSE IF car_load > 0 /\ b.debug_enable /\ (minute % 60) = 0
             THEN Raise(st, "TypeError")    \* the "..." % (...) of the log call
        ELSE StepRecord(b, a, st, acc2, record, charge_window_n)

\* min(int(limit / soc_max * 100 + 0.5), 100)
LimitPercent(b, limit) ==
    Min2((200 * limit + b.soc_max) \div (2 * b.soc_max), 100)

\* what follows the loop: the percentages, the log line, the published
\* entities, the return
SimFinish(b, a, st) ==
    LET has(k) == k \in DOMAIN st.predict_soc
    IN  IF Len(a.charge_limit) > 0 /\ b.soc_max = 0
        THEN Raise(st, "ZeroDivisionError")
        ELSE IF (b.debug_enable \/ a.save # "none") /\ ~st.final_soc_bound
        THEN Raise(st, "UnboundLocalError")
        ELSE IF a.save = "base" /\ ~has(0)
        THEN Raise(st, "KeyError")
        ELSE IF a.save = "best" /\ ~(has(60) /\ has(60 * 8) /\ has(60 * 12))
        THEN Raise(st, "KeyError")
        ELSE IF ~st.final_soc_bound
        THEN Raise(st, "UnboundLocalError")
        ELSE [st EXCEPT !.pc = "returned",
                        !.published = a.save,
                        !.charge_limit_percent =
                            [i \in 1..Len(a.charge_limit) |->
                                LimitPercent(b, a.charge_limit[i])]]

\* the whole call, as the optimiser uses it
RECURSIVE SimRun(_, _, _)
SimRun(b, a, st) ==
    IF st.pc # "loop" THEN st
    ELSE IF st.minute < b.forecast_minutes THEN SimRun(b, a, SimStep(b, a, st))
    ELSE SimFinish(b, a, st)

run_prediction(b, a) == SimRun(b, a, SimStart(b, a))

-----------------------------------------------------------------------------
(* The inputs of the simulator *)

\* A backward counter curve (key = minutes ago) as clean_incrementing_reverse
\* leaves it, restricted to the keys lo..hi: the consumption of minute k is
\* data[k] - data[k+1], near for the minutes the first step reads and far
\* for the others
BackInc(k, near, far) == IF k > DayMinutes - StepMinutes THEN near ELSE far

BackCurve(lo, hi, near, far) ==
    [k \in lo..hi |->
        SumFn([j \in k..(hi - 1) |-> BackInc(j, near, far)], k..(hi - 1))]

\* a forward curve with one value for the keys lo..hi
FlatCurve(lo, hi, value) == [k \in lo..hi |-> value]

\* the oldest key of a backward curve that a horizon of MaxSteps steps reads
LoadLo == DayMinutes - MaxSteps * StepMinutes

Window(start, end) == [start |-> start, end |-> end]

Plans ==
    { [charge_limit |-> <<>>, charge_window |-> <<>>,
       discharge_window |-> <<>>, discharge_enable |-> <<>>],
      [charge_limit |-> <<40>>, charge_window |-> <<Window(0, 10)>>,
       discharge_window |-> <<>>, discharge_enable |-> <<>>],
      [charge_limit |-> <<30, 40>>,
       charge_window |-> <<Window(5, 10), Window(20, 30)>>,
       discharge_window |-> <<Window(10, 15)>>, discharge_enable |-> <<TRUE>>],
      [charge_limit |-> <<>>, charge_window |-> <<>>,
       discharge_window |-> <<Window(0, 10), Window(10, 15)>>,
       discharge_enable |-> <<TRUE, FALSE>>] }

DefaultBase ==
    [forecast_minutes |-> 2 * StepMinutes,
     minutes_now |-> 0,
     days_previous |-> 1,
     soc_kw |-> 30,
     soc_max |-> 40,
     reserve |-> 20,
     charge_rate |-> 2,
     discharge_rate |-> 2,
     charge_enable |-> TRUE,
     battery_loss |-> [num |-> 1, den |-> 2],
     car_charging_hold |-> FALSE,
     car_charging_threshold |-> 4,
     car_charging_energy |-> EmptyDict,
     car_charging_rate |-> 0,
     octopus_slots |-> <<>>,
     rate_import |-> EmptyDict,
     rate_export |-> EmptyDict,
     metric_house |-> 38,
     metric_battery |-> 8,
     metric_export |-> 4,
     cost_today_sofar |-> 0,
     debug_enable |-> FALSE]

SimArgs(plan, load, pv, save) ==
    [charge_limit |-> plan.charge_limit,
     charge_window |-> plan.charge_window,
     discharge_window |-> plan.discharge_window,
     discharge_enable |-> plan.discharge_enable,
     load_minutes |-> load,
     pv_forecast_minute |-> pv,
     save |-> save,
     step |-> StepMinutes]

\* the battery, the plan and the curves vary
ScenariosBattery ==
    LET LoadCurves ==
            { EmptyDict,                               \* no history at all
              BackCurve(LoadLo, DayMinutes + 1, 2, 2), \* steady load
              BackCurve(LoadLo, DayMinutes + 1, 8, 0), \* a spike in the first step
              BackCurve(LoadLo, DayMinutes - 6, 2, 2)  \* history with the newest part missing
            }
        PvCurves ==
            { EmptyDict,
              FlatCurve(0, 2 * MaxSteps * StepMinutes, 4),
              FlatCurve(3, 7, 12) }
        Losses == { [num |-> 1, den |-> 1], [num |-> 1, den |-> 2] }
    IN  { [base |-> [DefaultBase EXCEPT !.forecast_minutes = n * StepMinutes,
                                        !.minutes_now = now,
                                        !.reserve = reserve,
                                        !.soc_kw = soc,
                                        !.charge_enable = enable,
                                        !.battery_loss = loss],
           args |-> SimArgs(plan, load, pv, "none")] :
             n \in 0..MaxSteps, now \in {0, 5}, reserve \in {0, 20, 60},
             soc \in {0, 30, 50}, enable \in BOOLEAN, loss \in Losses,
             plan \in Plans, load \in LoadCurves, pv \in PvCurves }

\* the configuration varies
ScenariosConfig ==
    LET RateCurves == { EmptyDict, FlatCurve(0, 7, 10) }
        CarOptions ==
            { [hold |-> FALSE, energy |-> EmptyDict],
              [hold |-> TRUE, energy |-> EmptyDict],
              [hold |-> TRUE, energy |-> BackCurve(LoadLo, DayMinutes + 1, 6, 0)],
              [hold |-> TRUE, energy |-> BackCurve(LoadLo, DayMinutes - 6, 6, 0)] }
        OctopusOptions ==
            { [rate |-> 0, slots |-> <<>>],
              [rate |-> 24, slots |-> <<[start_minutes |-> 0, end_minutes |-> 10]>>] }
    IN  { [base |-> [DefaultBase EXCEPT !.soc_max = soc_max,
                                        !.charge_rate = charge_rate,
                                        !.discharge_rate = discharge_rate,
                                        !.car_charging_hold = car.hold,
                                        !.car_charging_energy = car.energy,
                                        !.car_charging_rate = octopus.rate,
                                        !.octopus_slots = octopus.slots,
                                        !.rate_import = rate_import,
                                        !.rate_export = rate_export,
                                        !.debug_enable = debug],
           args |-> SimArgs(plan, load, FlatCurve(3, 7, 12), save)] :
             soc_max \in {0, 40}, charge_rate \in {0, 2}, discharge_rate \in {0, 2},
             car \in CarOptions, octopus \in OctopusOptions,
             rate_import \in RateCurves, rate_export \in RateCurves,
             debug \in BOOLEAN, save \in {"none", "base", "best"},
             plan \in {pl \in Plans : Len(pl.charge_limit) + Len(pl.discharge_enable) = 1
                                        \/ Len(pl.charge_limit) = 2},
             load \in {BackCurve(LoadLo, DayMinutes + 1, 2, 2),
                       BackCurve(LoadLo, DayMinutes + 1, 8, 0)} }

-----------------------------------------------------------------------------
(* SpecSim: run_prediction step by step *)

\* no helper function is being called, and no timer is running
CalcIdle ==
    /\ calc = [pc |-> "idle"]
    /\ run = [pc |-> "idle"]

\* the inverter programming has not run
TickIdle ==
    /\ charge_limit_percent_best = <<>>
    /\ inverter = [scheduled_charge_enable |-> "off"]
    /\ tick = [pc |-> "idle"]

\* the optimiser's variables while only the simulator runs
PlanIdle ==
    /\ conf = [calculate_best |-> FALSE]
    /\ charge_window_best = <<>>
    /\ charge_limit_best = <<>>
    /\ discharge_window_best = <<>>
    /\ discharge_enable_best = <<>>
    /\ pred = [pc |-> "idle"]

InitSim ==
    LET SimScenarios == ScenariosBattery \cup ScenariosConfig
    IN  /\ \E sc \in SimScenarios :
              /\ base = sc.base
              /\ args = sc.args
        /\ sim = SimStart(base, args)
        /\ PlanIdle
        /\ TickIdle
        /\ CalcIdle

\* one pass through the body of the while loop
SimIterate ==
    /\ sim.pc = "loop"
    /\ sim.minute < base.forecast_minutes
    /\ sim' = SimStep(base, args, sim)
    /\ UNCHANGED <<base, args>>
    /\ UNCHANGED planvars
    /\ UNCHANGED tickvars
    /\ UNCHANGED <<calc, run>>

\* the loop has ended: the code after it
SimReturn ==
    /\ sim.pc = "loop"
    /\ ~(sim.minute < base.forecast_minutes)
    /\ sim' = SimFinish(base, args, sim)
    /\ UNCHANGED <<base, args>>
    /\ UNCHANGED planvars
    /\ UNCHANGED tickvars
    /\ UNCHANGED <<calc, run>>

NextSim == SimIterate \/ SimReturn

SpecSim == InitSim /\ [][NextSim]_vars

-----------------------------------------------------------------------------
(* Claims about run_prediction, checked under SpecSim *)

\* C1: after every simulation step of run_prediction, whatever the plan and
\* the curves, the battery's soc lies between reserve and soc_max, provided
\* reserve <= soc_max.
C1_SocWithinBounds ==
    (sim.minute > 0 /\ base.reserve <= base.soc_max)
        => (base.reserve <= sim.soc /\ sim.soc <= base.soc_max)

\* a run two steps in whose battery was filled to soc_max with solar left
\* over to export
C1_Witness ==
    /\ sim.minute >= 2 * args.step
    /\ 0 < base.reserve /\ base.reserve <= base.soc_max
    /\ sim.soc = base.soc_max
    /\ sim.export_kwh > 0

\* C2: run_prediction is a total function: with any plan and any curves,
\* empty or partly missing ones included, it returns and does not raise.
\* Stated for the calls whose configuration is sound (a horizon that is not
\* empty and records, a battery with capacity, no debug log, nothing saved).
C2_NeverRaises ==
    (/\ base.forecast_minutes > 0
     /\ record_length(base, args.charge_window) > 0
     /\ base.soc_max > 0
     /\ ~base.debug_enable
     /\ args.save = "none")
        => sim.pc # "raised"

\* C3: with forecast_minutes = 0 run_prediction returns, and its totals are
\* zero.
C3_ZeroForecastReturnsZeros ==
    (base.forecast_minutes = 0 /\ sim.pc # "loop")
        => /\ sim.pc = "returned"
           /\ sim.import_kwh = 0
           /\ sim.export_kwh = 0
           /\ sim.metric = base.cost_today_sofar

-----------------------------------------------------------------------------
(* The optimiser: optimise_charge_limit and the pruning of unused slots *)

\* best_metric = 9999999: a metric above every metric a simulation returns.
\* In stored money units it is represented by the largest round number the
\* model's integers hold
BestMetricStart == 2000000000

\* the floor of best_soc_step, 0.1 kWh, in stored units
SocStepFloor == 200

\* the arguments of the simulator calls the optimiser makes
TryArgs(pl, limits, pv) ==
    [charge_limit |-> limits,
     charge_window |-> pl.charge_window,
     discharge_window |-> pl.discharge_window,
     discharge_enable |-> pl.discharge_enable,
     load_minutes |-> pl.load_minutes,
     pv_forecast_minute |-> pv,
     save |-> "none",
     step |-> StepMinutes]

\* the composite metric of one try: the balancing payment for the battery
\* left over, and the weighted penalty of the 10% scenario (which alone
\* rounds the metric)
TryMetric(cf, mid, p10) ==
    LET metric == mid.metric - mid.final_soc * cf.rate_min
    IN  IF p10.metric > mid.metric
        THEN dp2(metric + (p10.metric - mid.metric) * cf.pv_metric10_weight)
        ELSE metric

\* try_soc: loop_soc clamped by best_soc_min, reserve and soc_max, rounded
TrySoc(b, cf, loop_soc) ==
    dp2(Min2(Max2(Max2(cf.best_soc_min, loop_soc), b.reserve), b.soc_max))

\* the test without the soc_keep guard
ChargeSelectsNoKeep(cf, record_charge_windows, metric, best_metric, soc_min) ==
    \/ best_metric = BestMetricStart
    \/ metric * record_charge_windows + cf.metric_min_improvement
           <= best_metric * record_charge_windows

\* the test that selects a try, with the division by record_charge_windows
\* multiplied out; against the initial best_metric the comparison holds for
\* every metric a simulation returns
ChargeSelects(cf, record_charge_windows, metric, best_metric, soc_min) ==
    /\ \/ best_metric = BestMetricStart
       \/ metric * record_charge_windows + cf.metric_min_improvement
              <= best_metric * record_charge_windows
    /\ (best_metric = BestMetricStart \/ soc_min >= cf.best_soc_keep)

\* one try of the sweep: the two simulations, the metric and the selection
TryOutcome(cf, record_charge_windows, try_soc, mid, p10, best_metric) ==
    IF mid.pc = "raised" THEN [pc |-> "raised", err |-> mid.err]
    ELSE IF p10.pc = "raised" THEN [pc |-> "raised", err |-> p10.err]
    ELSE [pc |-> "tried", err |-> "none",
          try_soc |-> try_soc,
          metric |-> TryMetric(cf, mid, p10),
          cost |-> mid.metric,
          soc_min |-> mid.soc_min,
          best_before |-> best_metric,
          selected |-> ChargeSelects(cf, record_charge_windows,
                                     TryMetric(cf, mid, p10), best_metric,
                                     mid.soc_min)]

\* try_charge_limit[window_n] = try_soc
TryLimits(pl, window_n, try_soc) ==
    [pl.try_charge_limit EXCEPT ![window_n + 1] = try_soc]

\* the simulations run with debug_enable off
Quiet(b) == [b EXCEPT !.debug_enable = FALSE]

\* the while loop of optimise_charge_limit; ls holds its locals
RECURSIVE ChargeSweep(_, _, _, _, _)
RECURSIVE SweepTry(_, _, _, _, _, _)
RECURSIVE SweepSelect(_, _, _, _, _, _)

\* the end of one iteration: the selection and the next loop_soc
SweepSelect(b, cf, pl, window_n, ls, try) ==
    IF try.pc = "raised" THEN [ls EXCEPT !.pc = "raised", !.err = try.err]
    ELSE ChargeSweep(b, cf, pl, window_n,
            [ls EXCEPT
                !.best_metric = IF try.selected THEN try.metric ELSE @,
                !.best_soc = IF try.selected THEN try.try_soc ELSE @,
                !.best_cost = IF try.selected THEN try.cost ELSE @,
                !.best_soc_min = IF try.selected THEN try.soc_min ELSE @,
                !.tries = Append(@, try),
                !.prev_soc = try.try_soc,
                !.prev_metric = try.metric,
                !.loop_soc = @ - Max2(cf.best_soc_step, SocStepFloor)])

\* "Stop when we won't change the soc anymore", else simulate the try
SweepTry(b, cf, pl, window_n, ls, try_soc) ==
    IF try_soc >= ls.prev_soc THEN ls
    ELSE SweepSelect(b, cf, pl, window_n, ls,
            TryOutcome(cf, pl.record_charge_windows, try_soc,
                run_prediction(Quiet(b),
                    TryArgs(pl, TryLimits(pl, window_n, try_soc),
                            pl.pv_forecast_minute)),
                run_prediction(Quiet(b),
                    TryArgs(pl, TryLimits(pl, window_n, try_soc),
                            pl.pv_forecast_minute10)),
                ls.best_metric))

ChargeSweep(b, cf, pl, window_n, ls) ==
    IF ~(ls.loop_soc >= 0) THEN ls
    ELSE SweepTry(b, cf, pl, window_n, ls, TrySoc(b, cf, ls.loop_soc))

\* the margin added without the clamp to soc_max
AddMarginUnclamped(b, cf, best_soc) == best_soc + cf.best_soc_margin

\* "Add margin last"
AddMargin(b, cf, best_soc) == Min2(best_soc + cf.best_soc_margin, b.soc_max)

\* the locals of optimise_charge_limit before the loop
SweepStart(b) ==
    [pc |-> "loop", err |-> "none",
     loop_soc |-> b.soc_max,
     best_soc |-> b.soc_max,
     best_soc_min |-> b.soc_max,
     best_metric |-> BestMetricStart,
     best_cost |-> 0,
     prev_soc |-> b.soc_max + 2000,
     prev_metric |-> BestMetricStart,
     tries |-> <<>>]

\* what follows the loop
SweepReturn(b, cf, ls) ==
    IF ls.pc = "raised" THEN ls
    ELSE [ls EXCEPT !.pc = "returned",
                    !.best_soc = AddMargin(b, cf, ls.best_soc)]

optimise_charge_limit(b, cf, pl, window_n) ==
    SweepReturn(b, cf, ChargeSweep(b, cf, pl, window_n, SweepStart(b)))

\* the selection test of optimise_discharge: the soc_keep guard has no
\* exception for the first try
DischargeSelects(cf, record_charge_windows, metric, best_metric, soc_min) ==
    /\ \/ best_metric = BestMetricStart
       \/ metric * record_charge_windows + cf.metric_min_improvement
              <= best_metric * record_charge_windows
    /\ soc_min >= cf.best_soc_keep

\* one try of optimise_discharge, given its two simulations: the metric
\* and the selection
DischargeOutcome(cf, record_charge_windows, enable, mid, p10, best_metric) ==
    IF mid.pc = "raised" THEN [pc |-> "raised", err |-> mid.err]
    ELSE IF p10.pc = "raised" THEN [pc |-> "raised", err |-> p10.err]
    ELSE [pc |-> "tried", err |-> "none",
          enable |-> enable,
          metric |-> TryMetric(cf, mid, p10),
          cost |-> mid.metric,
          soc_min |-> mid.soc_min,
          best_before |-> best_metric,
          selected |-> DischargeSelects(cf, record_charge_windows,
                                        TryMetric(cf, mid, p10), best_metric,
                                        mid.soc_min)]

\* try_discharge[window_n] = this_discharge_enable, and the simulations
\* with medium and with 10% PV
DischargeTry(b, cf, pl, window_n, enable, best_metric) ==
    DischargeOutcome(cf, pl.record_charge_windows, enable,
        run_prediction(Quiet(b),
            [TryArgs(pl, pl.try_charge_limit, pl.pv_forecast_minute)
                EXCEPT !.discharge_enable[window_n + 1] = enable]),
        run_prediction(Quiet(b),
            [TryArgs(pl, pl.try_charge_limit, pl.pv_forecast_minute10)
                EXCEPT !.discharge_enable[window_n + 1] = enable]),
        best_metric)

\* the second pass of "for this_discharge_enable in [False, True]" and the
\* return
DischargeSecond(b, cf, pl, window_n, off, on) ==
    IF off.pc = "raised" THEN off
    ELSE IF on.pc = "raised" THEN on
    ELSE [pc |-> "returned", err |-> "none",
          best_discharge |-> on.selected,
          best_metric |-> IF on.selected THEN on.metric
                          ELSE IF off.selected THEN off.metric
                          ELSE BestMetricStart,
          best_cost |-> IF on.selected THEN on.cost
                        ELSE IF off.selected THEN off.cost ELSE 0,
          soc_min |-> on.soc_min,
          tries |-> <<off, on>>]

optimise_discharge(b, cf, pl, window_n) ==
    DischargeSecond(b, cf, pl, window_n,
        DischargeTry(b, cf, pl, window_n, FALSE, BestMetricStart),
        DischargeTry(b, cf, pl, window_n, TRUE,
            IF DischargeTry(b, cf, pl, window_n, FALSE, BestMetricStart).selected
            THEN DischargeTry(b, cf, pl, window_n, FALSE, BestMetricStart).metric
            ELSE BestMetricStart))

\* sort_window_by_price: the (0-based) ids of the windows, cheapest first,
\* equal prices in their order (list.sort is stable)
RECURSIVE SortIds(_, _)
SortIds(windows, ids) ==
    IF ids = {} THEN <<>>
    ELSE LET first == CHOOSE i \in ids : \A j \in ids :
                          \/ windows[i].average < windows[j].average
                          \/ (windows[i].average = windows[j].average /\ i <= j)
         IN  <<first - 1>> \o SortIds(windows, ids \ {first})

sort_window_by_price(windows) == SortIds(windows, 1..Len(windows))

\* the indices of the slots discard_unused_charge_slots keeps
KeptSlots(limits, reserve) ==
    {n \in 1..Len(limits) : limits[n] > dp2(reserve)}

RECURSIVE Keep(_, _, _)
Keep(list, kept, n) ==
    IF n > Len(list) THEN <<>>
    ELSE (IF n \in kept THEN <<list[n]>> ELSE <<>>) \o Keep(list, kept, n + 1)

discard_unused_charge_slots(limits, windows, reserve) ==
    [new_limit_best |-> Keep(limits, KeptSlots(limits, reserve), 1),
     new_window_best |-> Keep(windows, KeptSlots(limits, reserve), 1)]

-----------------------------------------------------------------------------
(* update_pred: pre-fill, base simulation, optimise, prune *)

\* a window as rate_scan_window builds it
RateWindow(start, end, average) ==
    [start |-> start, end |-> end, average |-> average]

\* window_sort_func reads window['average']
HasAverage(windows) ==
    \A n \in 1..Len(windows) : "average" \in DOMAIN windows[n]

\* current_charge_limit * soc_max / 100.0
PrefillLimit(b, cf) == (cf.current_charge_limit * b.soc_max) \div 100

\* "Set all to min"
MinLimits(b, limits, record_charge_windows) ==
    [n \in 1..Len(limits) |->
        IF n - 1 < record_charge_windows THEN b.reserve ELSE b.soc_max]

\* windows[:count]
Prefix(list, count) == SubSeq(list, 1, Min2(count, Len(list)))

PredStart ==
    [pc |-> "prefill", err |-> "none", todo |-> <<>>,
     record_charge_windows |-> 0, before |-> <<>>, last |-> <<>>]

\* lines 1786-1807 and the simulation of the current settings
PlanPrefill ==
    /\ UNCHANGED tickvars
    /\ UNCHANGED <<calc, run>>
    /\ pred.pc = "prefill"
    /\ LET windows == IF conf.low_rates # <<>> THEN conf.low_rates
                      ELSE args.charge_window
           result  == run_prediction(base, [args EXCEPT !.save = "base"])
       IN  /\ charge_window_best' = windows
           /\ discharge_window_best' = conf.high_export_rates
           /\ charge_limit_best' = [n \in 1..Len(windows) |-> PrefillLimit(base, conf)]
           /\ discharge_enable_best' = [n \in 1..Len(conf.high_export_rates) |-> FALSE]
           /\ sim' = result
           /\ pred' = IF result.pc = "raised" THEN Raise(pred, result.err)
                      ELSE [pred EXCEPT !.pc = "best"]
    /\ UNCHANGED <<base, args, conf>>

\* "Try different battery SOCs to get the best result", up to the for loop
PlanStart ==
    /\ UNCHANGED tickvars
    /\ UNCHANGED <<calc, run>>
    /\ pred.pc = "best"
    /\ LET end_record == record_length(base, charge_window_best)
           record_charge_windows ==
               Max2(max_charge_windows(end_record + base.minutes_now,
                                       charge_window_best), 1)
           sorted == Prefix(charge_window_best, record_charge_windows)
       IN  IF ~conf.calculate_best
           THEN /\ pred' = [pred EXCEPT !.pc = "discard"]
                /\ UNCHANGED charge_limit_best
           ELSE /\ charge_limit_best' =
                       MinLimits(base, charge_limit_best, record_charge_windows)
                /\ pred' = IF HasAverage(sorted)
                           THEN [pred EXCEPT
                                   !.pc = "optimise",
                                   !.record_charge_windows = record_charge_windows,
                                   !.todo = sort_window_by_price(sorted)]
                           ELSE Raise(pred, "KeyError")
    /\ UNCHANGED <<base, args, sim, conf, charge_window_best,
                   discharge_window_best, discharge_enable_best>>

\* one iteration of "Optimise in price order, cheapest first"
OptimiseCharge ==
    /\ UNCHANGED tickvars
    /\ UNCHANGED <<calc, run>>
    /\ pred.pc = "optimise"
    /\ pred.todo # <<>>
    /\ LET window_n == Head(pred.todo)
           result == optimise_charge_limit(base, conf,
                        [try_charge_limit |-> charge_limit_best,
                         charge_window |-> charge_window_best,
                         discharge_window |-> discharge_window_best,
                         discharge_enable |-> discharge_enable_best,
                         load_minutes |-> args.load_minutes,
                         pv_forecast_minute |-> args.pv_forecast_minute,
                         pv_forecast_minute10 |-> conf.pv_forecast_minute10,
                         record_charge_windows |-> pred.record_charge_windows],
                        window_n)
       IN  IF result.pc = "raised"
           THEN /\ pred' = Raise(pred, result.err)
                /\ UNCHANGED charge_limit_best
           ELSE /\ charge_limit_best' =
                       [charge_limit_best EXCEPT ![window_n + 1] = result.best_soc]
                /\ pred' = [pred EXCEPT !.todo = Tail(@), !.last = <<result>>]
    /\ UNCHANGED <<base, args, sim, conf, charge_window_best,
                   discharge_window_best, discharge_enable_best>>

\* the end of the for loop
OptimiseDone ==
    /\ UNCHANGED tickvars
    /\ UNCHANGED <<calc, run>>
    /\ pred.pc = "optimise"
    /\ pred.todo = <<>>
    /\ pred' = [pred EXCEPT !.pc = "discard"]
    /\ UNCHANGED <<base, args, sim, conf, charge_window_best, charge_limit_best,
                   discharge_window_best, discharge_enable_best>>

\* "Discard unused slots if we controlling the charge window"
DiscardCharge ==
    /\ UNCHANGED tickvars
    /\ UNCHANGED <<calc, run>>
    /\ pred.pc = "discard"
    /\ LET kept == discard_unused_charge_slots(charge_limit_best,
                                               charge_window_best, base.reserve)
       IN  IF conf.set_charge_window
           THEN /\ charge_limit_best' = kept.new_limit_best
                /\ charge_window_best' = kept.new_window_best
                /\ pred' = [pred EXCEPT !.pc = "filtered",
                                        !.before = charge_limit_best]
           ELSE /\ pred' = [pred EXCEPT !.pc = "unfiltered",
                                        !.before = charge_limit_best]
                /\ UNCHANGED <<charge_limit_best, charge_window_best>>
    /\ UNCHANGED <<base, args, sim, conf, discharge_window_best,
                   discharge_enable_best>>

-----------------------------------------------------------------------------
(* The inputs of the optimiser.  Energies are multiples of 0.005 kWh here, *)
(* large enough for the sweep's smallest step of 0.1 kWh.                  *)

PlanBase ==
    [DefaultBase EXCEPT !.forecast_minutes = MaxSteps * StepMinutes,
                        !.charge_rate = 20,
                        !.discharge_rate = 20,
                        !.battery_loss = [num |-> 1, den |-> 1]]

PlanInputs ==
    \* the charge window read from the inverter
    LET InverterWindows == { <<>>, <<Window(0, 10)>> }
    IN  { [base |-> [PlanBase EXCEPT !.soc_max = soc_max, !.reserve = reserve,
                                     !.soc_kw = soc],
           args |-> SimArgs([charge_limit |-> [n \in 1..Len(window) |->
                                                  (limit * soc_max) \div 100],
                             charge_window |-> window,
                             discharge_window |-> <<>>,
                             discharge_enable |-> <<>>],
                            load, pv, "none"),
           limit |-> limit] :
             soc_max \in {400, 410}, reserve \in {0, 200}, soc \in {200},
             window \in InverterWindows, limit \in {0, 50, 100},
             load \in { BackCurve(LoadLo, DayMinutes + 1, 20, 20),
                        BackCurve(LoadLo, DayMinutes + 1, 60, 0) },
             pv \in { FlatCurve(0, MaxSteps * StepMinutes, 40) } }

InitPlan ==
    \* the low rate windows the rate scan found (none: no rates were read)
    LET LowRates ==
            { <<>>,
              <<RateWindow(0, 10, 5)>>,
              <<RateWindow(0, 5, 10), RateWindow(10, 15, 5)>>,
              <<RateWindow(5, 10, 5), RateWindow(MaxSteps * StepMinutes + 5,
                                                 MaxSteps * StepMinutes + 15, 5)>> }
        PlanConfigs ==
            { [calculate_best |-> best,
               set_charge_window |-> set,
               low_rates |-> low,
               high_export_rates |-> <<>>,
               current_charge_limit |-> limit,
               best_soc_min |-> floor.soc_min,
               best_soc_margin |-> margin,
               best_soc_keep |-> floor.keep,
               best_soc_step |-> 0,
               metric_min_improvement |-> 0,
               pv_metric10_weight |-> 1,
               rate_min |-> rate_min,
               pv_forecast_minute10 |-> EmptyDict] :
                 best \in BOOLEAN, set \in BOOLEAN, low \in LowRates,
                 limit \in {0, 50, 100}, margin \in {-100, 0, 100},
                 floor \in { [soc_min |-> 0, keep |-> 0],
                             [soc_min |-> 300, keep |-> 0],
                             [soc_min |-> 0, keep |-> 300] },
                 rate_min \in {0, 4} }
    IN  /\ \E in \in PlanInputs, cf \in PlanConfigs :
              /\ cf.current_charge_limit = in.limit
              /\ base = in.base
              /\ args = in.args
              /\ conf = cf
        /\ sim = SimStart(base, args)
        /\ charge_window_best = <<>>
        /\ charge_limit_best = <<>>
        /\ discharge_window_best = <<>>
        /\ discharge_enable_best = <<>>
        /\ pred = PredStart
        /\ TickIdle
        /\ CalcIdle

NextPlan ==
    \/ PlanPrefill
    \/ PlanStart
    \/ OptimiseCharge
    \/ OptimiseDone
    \/ DiscardCharge

SpecPlan == InitPlan /\ [][NextPlan]_vars

-----------------------------------------------------------------------------
(* Claims about the optimised and pruned charge plan *)

C10_PruningKeepsOneSlot ==
    (pred.pc = "filtered" /\ Len(pred.before) > 0)
        => Len(charge_limit_best) >= 1

-----------------------------------------------------------------------------
(* The Inverter driver.  A time of day ("%H:%M:%S", seconds always zero)   *)
(* is held as its minute of the day.  The device's answer to the writes of *)
(* one run is ack_at: 0 when it never takes a written value, otherwise the *)
(* attempt at which a polled write is read back.                           *)

\* "tries = 12" of write_and_poll_option
PollTries == 12

\* old_value = "": no time of day
NoValue == -1

\* strftime("%H:%M:%S") of midnight_utc + timedelta(minutes = minutes)
TimeStr(minutes) == minutes % DayMinutes

\* strptime(value, "%H:%M:%S"): hour * 60 + minute
TimeMinutes(value) == (value \div 60) * 60 + (value % 60)

\* the while loop of write_and_poll_option
RECURSIVE PollLoop(_, _, _, _, _)
PollLoop(old_value, tries, device_value, new_value, ack_at) ==
    IF old_value # new_value /\ tries > 0
    THEN LET attempt == PollTries - tries + 1
             read    == IF ack_at # 0 /\ attempt >= ack_at
                        THEN new_value ELSE device_value
         IN  PollLoop(read, tries - 1, read, new_value, ack_at)
    ELSE [value |-> device_value,
          writes |-> PollTries - tries,
          warned |-> tries = 0]

write_and_poll_option(device_value, new_value, ack_at) ==
    PollLoop(NoValue, PollTries, device_value, new_value, ack_at)

\* a service call that is not read back
CallService(device_value, new_value, ack_at) ==
    IF ack_at # 0 THEN new_value ELSE device_value

\* Inverter.update_status: the cached fields of the Inverter object
update_status(dev, cf, b) ==
    LET charge_enable_time == dev.scheduled_charge_enable = "on"
        timed   == cf.charge_enable /\ charge_enable_time
        start0  == TimeMinutes(dev.charge_start_time)
        end0    == TimeMinutes(dev.charge_end_time)
        wraps   == end0 < start0
        start   == IF ~timed THEN b.forecast_minutes
                   ELSE IF wraps /\ end0 > b.minutes_now THEN start0 - 60 * 24
                   ELSE start0
        end     == IF ~timed THEN b.forecast_minutes
                   ELSE IF wraps /\ ~(end0 > b.minutes_now) THEN end0 + 60 * 24
                   ELSE end0
        minute  == Max2(0, start)
        count   == IF charge_enable_time /\ minute < b.forecast_minutes
                   THEN (b.forecast_minutes - minute + 24 * 60 - 1) \div (24 * 60)
                   ELSE 0
    IN  [charge_enable |-> cf.charge_enable,
         charge_enable_time |-> charge_enable_time,
         charge_start_time_minutes |-> start,
         charge_end_time_minutes |-> end,
         charge_window |-> [n \in 1..count |->
                               Window(minute + (n - 1) * 24 * 60,
                                      end + (n - 1) * 24 * 60)]]

\* the log of one driver call: noop says that the device already read back
\* what the call asks for
Called(d, op, noop, writes) ==
    [d EXCEPT !.calls = Append(@, [op |-> op, noop |-> noop, writes |-> writes]),
              !.writes = @ + writes]

\* adjust_battery_target without the test of the current setting
TargetAlwaysWritten(d, soc, ack_at) ==
    Called([d EXCEPT !.dev.soc_percent = CallService(@, soc, ack_at)],
           "adjust_battery_target", d.dev.soc_percent = soc, 1)

adjust_battery_target(d, soc, ack_at) ==
    IF d.dev.soc_percent # soc
    THEN Called([d EXCEPT !.dev.soc_percent = CallService(@, soc, ack_at)],
                "adjust_battery_target", FALSE, 1)
    ELSE Called(d, "adjust_battery_target", TRUE, 0)

adjust_charge_window(d, charge_start_time, charge_end_time, ack_at) ==
    LET new_start == TimeStr(charge_start_time)
        new_end   == TimeStr(charge_end_time)
        was_off   == d.dev.scheduled_charge_enable = "off"
        start     == IF new_start # d.dev.charge_start_time
                     THEN write_and_poll_option(d.dev.charge_start_time,
                                                new_start, ack_at)
                     ELSE [value |-> d.dev.charge_start_time, writes |-> 0]
        end       == IF new_end # d.dev.charge_end_time
                     THEN write_and_poll_option(d.dev.charge_end_time,
                                                new_end, ack_at)
                     ELSE [value |-> d.dev.charge_end_time, writes |-> 0]
    IN  Called([d EXCEPT
                  !.dev.scheduled_charge_enable =
                      IF was_off THEN CallService(@, "on", ack_at) ELSE @,
                  !.dev.charge_start_time = start.value,
                  !.dev.charge_end_time = end.value,
                  !.inv.charge_enable_time = IF was_off THEN TRUE ELSE @,
                  !.programmed = <<new_start, new_end>>],
               "adjust_charge_window",
               ~was_off /\ new_start = d.dev.charge_start_time
                        /\ new_end = d.dev.charge_end_time,
               (IF was_off THEN 1 ELSE 0) + start.writes + end.writes)

disable_charge_window(d, b, ack_at) ==
    IF d.dev.scheduled_charge_enable = "on"
    THEN Called([d EXCEPT
                   !.dev.scheduled_charge_enable = CallService(@, "off", ack_at),
                   !.inv.charge_enable_time = FALSE,
                   !.inv.charge_start_time_minutes = b.forecast_minutes,
                   !.inv.charge_end_time_minutes = b.forecast_minutes],
                "disable_charge_window", FALSE, 1)
    ELSE Called(d, "disable_charge_window", TRUE, 0)

\* adjust_force_discharge; times = <<>> stands for the call without times
adjust_force_discharge(d, force_discharge, times, ack_at) ==
    LET new_inverter_mode == IF force_discharge THEN "Timed Export" ELSE "Eco"
        given     == times # <<>>
        new_start == IF given THEN TimeStr(times[1]) ELSE NoValue
        new_end   == IF given THEN TimeStr(times[2]) ELSE NoValue
        start     == IF given /\ new_start # d.dev.discharge_start_time
                     THEN write_and_poll_option(d.dev.discharge_start_time,
                                                new_start, ack_at)
                     ELSE [value |-> d.dev.discharge_start_time, writes |-> 0]
        end       == IF given /\ new_end # d.dev.discharge_end_time
                     THEN write_and_poll_option(d.dev.discharge_end_time,
                                                new_end, ack_at)
                     ELSE [value |-> d.dev.discharge_end_time, writes |-> 0]
        mode      == d.dev.inverter_mode # new_inverter_mode
    IN  Called([d EXCEPT
                  !.dev.discharge_start_time = start.value,
                  !.dev.discharge_end_time = end.value,
                  !.dev.inverter_mode =
                      IF mode THEN CallService(@, new_inverter_mode, ack_at)
                      ELSE @],
               "adjust_force_discharge",
               /\ ~mode
               /\ (given => /\ new_start = d.dev.discharge_start_time
                            /\ new_end = d.dev.discharge_end_time),
               start.writes + end.writes + (IF mode THEN 1 ELSE 0))

-----------------------------------------------------------------------------
(* update_pred: programming the inverter (one inverter) *)

\* "Combine contigous windows"
RECURSIVE CombineEnd(_, _, _)
CombineEnd(windows, n, minutes_end) ==
    IF n > Len(windows) THEN minutes_end
    ELSE CombineEnd(windows, n + 1,
                    IF minutes_end = windows[n].start THEN windows[n].end
                    ELSE minutes_end)

\* "Avoid adjust avoid start time forward when it's already started"
FrozenStart(d, b, minutes_start) ==
    IF d.inv.charge_start_time_minutes < b.minutes_now
       /\ b.minutes_now >= minutes_start
    THEN d.inv.charge_start_time_minutes
    ELSE minutes_start

\* "We must re-program if we are about to start a new charge window or the
\* currently configured window is about to start"
MustReprogram(d, b, cf, minutes_start, minutes_end) ==
    /\ b.minutes_now < minutes_end
    /\ \/ (minutes_start - b.minutes_now) <= cf.set_window_minutes
       \/ (d.inv.charge_start_time_minutes - b.minutes_now) <= cf.set_window_minutes

\* "Re-programme charge window based on low rates?"
ProgramCharge(d, b, cf, windows, ack_at) ==
    IF cf.set_charge_window /\ windows # <<>>
    THEN LET minutes_end   == CombineEnd(windows, 1, windows[1].end)
             minutes_start == FrozenStart(d, b, windows[1].start)
             status == IF b.minutes_now >= minutes_start
                          /\ b.minutes_now < minutes_end
                       THEN "Charging" ELSE d.status
             d1 == IF MustReprogram(d, b, cf, minutes_start, minutes_end)
                   THEN adjust_charge_window(d, minutes_start, minutes_end, ack_at)
                   ELSE d
         IN  IF (minutes_end - b.minutes_now) < 24 * 60
                /\ minutes_end > b.minutes_now
             THEN [d1 EXCEPT !.status = status,
                             !.inv.charge_start_time_minutes = minutes_start,
                             !.inv.charge_end_time_minutes = minutes_end]
             ELSE IF minutes_end >= 24 * 60
             THEN disable_charge_window(d, b, ack_at)
             ELSE d
    ELSE IF cf.set_charge_window
    THEN disable_charge_window(d, b, ack_at)
    ELSE d

\* "Set forced discharge window"; PredBat has no adjust_force_discharge, so
\* the call on self inside the window raises
ProgramDischarge(d, b, cf, windows, enable, ack_at) ==
    IF cf.set_discharge_window /\ windows # <<>>
    THEN LET minutes_start == windows[1].start
             minutes_end   == windows[1].end
         IN  IF b.minutes_now >= minutes_start /\ b.minutes_now < minutes_end
                /\ enable[1]
             THEN Raise(d, "AttributeError")
             ELSE IF b.minutes_now < minutes_end
                     /\ (minutes_start - b.minutes_now) <= cf.set_window_minutes
                     /\ enable[1]
             THEN adjust_force_discharge(d, FALSE,
                                         <<minutes_start, minutes_end>>, ack_at)
             ELSE adjust_force_discharge(d, FALSE, <<>>, ack_at)
    ELSE d

\* the SOC block without the set_soc_enable test
ProgramSocUngated(d, b, cf, percent_best, ack_at) ==
    IF b.minutes_now < d.inv.charge_end_time_minutes
       /\ (d.inv.charge_start_time_minutes - b.minutes_now) <= cf.set_soc_minutes
    THEN IF percent_best = <<>> THEN Raise(d, "IndexError")
         ELSE adjust_battery_target(d, percent_best[1], ack_at)
    ELSE d

\* "Set the SOC just before or within the charge window"
ProgramSoc(d, b, cf, percent_best, ack_at) ==
    IF cf.set_soc_enable
    THEN IF b.minutes_now < d.inv.charge_end_time_minutes
            /\ (d.inv.charge_start_time_minutes - b.minutes_now) <= cf.set_soc_minutes
         THEN IF percent_best = <<>> THEN Raise(d, "IndexError")
              ELSE adjust_battery_target(d, percent_best[1], ack_at)
         ELSE d
    ELSE d

\* the state of the loop over the inverters before its body
ProgramStart(dev, b, cf) ==
    [pc |-> "run", err |-> "none", status |-> "Idle",
     dev |-> dev, inv |-> update_status(dev, cf, b),
     calls |-> <<>>, writes |-> 0, programmed |-> <<>>]

\* the body of "for inverter in self.inverters"
Program(dev, b, cf, charge_windows, discharge_windows, enable, percent_best, ack_at) ==
    LET d0 == ProgramStart(dev, b, cf)
        d1 == ProgramCharge(d0, b, cf, charge_windows, ack_at)
        d2 == ProgramDischarge(d1, b, cf, discharge_windows, enable, ack_at)
        d3 == ProgramSoc(d2, b, cf, percent_best, ack_at)
    IN  IF ~d0.inv.charge_enable THEN [d0 EXCEPT !.pc = "done"]
        ELSE IF d2.pc = "raised" THEN d2
        ELSE IF d3.pc = "raised" THEN d3
        ELSE [d3 EXCEPT !.pc = "done"]

\* one run of the programming part: the inverter status is read, the plan
\* is published and the inverter is programmed
UpdatePred ==
    \* what the device does with the writes of one run
    LET AckOptions == {0, 1, PollTries}
    IN  /\ tick.pc # "idle"
        /\ \E ack_at \in AckOptions :
              LET d == Program(inverter, base, conf, charge_window_best,
                               discharge_window_best, discharge_enable_best,
                               charge_limit_percent_best, ack_at)
              IN  /\ inverter' = d.dev
                  /\ tick' = [pc |-> d.pc, err |-> d.err, status |-> d.status,
                              calls |-> d.calls, writes |-> d.writes,
                              programmed |-> d.programmed,
                              configured |-> ProgramStart(inverter, base, conf).inv,
                              inv |-> d.inv,
                              published |-> TRUE,
                              acked |-> ack_at # 0,
                              repeat |-> tick.pc # "start" /\ tick.acked,
                              prev_writes |-> IF tick.pc = "start" THEN 0
                                              ELSE tick.writes]
        /\ UNCHANGED <<base, args, sim, conf, charge_window_best, charge_limit_best,
                       discharge_window_best, discharge_enable_best, pred,
                       charge_limit_percent_best>>
        /\ UNCHANGED <<calc, run>>

-----------------------------------------------------------------------------
(* SpecTick: update_pred runs again and again for one time of day, one     *)
(* plan and one configuration; only the inverter changes, by the writes    *)

\* forecast_hours = 24
TickBase(minutes_now) ==
    [DefaultBase EXCEPT !.minutes_now = minutes_now,
                        !.forecast_minutes = 24 * 60]

InitTick ==
    LET TickTimes == {30, 700, 720, 1430}
        TickChargePlans ==
            { <<>>,
              <<Window(700, 760)>>,
              <<Window(1080, 1140)>>,
              <<Window(1420, 1500)>>,
              <<Window(1420, 1530)>>,
              <<Window(0, 120)>>,
              <<Window(700, 730), Window(730, 760)>>,
              <<Window(600, 660), Window(1080, 1140)>>,
              <<Window(2000, 2100)>> }
        TickDischargePlans ==
            { <<>>, <<Window(720, 750)>>, <<Window(740, 770)>> }
        TickConfigs ==
            { [charge_enable |-> enable,
               set_charge_window |-> window,
               set_discharge_window |-> discharge,
               set_soc_enable |-> soc,
               set_window_minutes |-> 30,
               set_soc_minutes |-> 30] :
                 enable \in BOOLEAN, window \in BOOLEAN, discharge \in BOOLEAN,
                 soc \in BOOLEAN }
        TickInverters ==
            { [scheduled_charge_enable |-> schedule,
               charge_start_time |-> times[1],
               charge_end_time |-> times[2],
               soc_percent |-> percent,
               inverter_mode |-> "Eco",
               discharge_start_time |-> 0,
               discharge_end_time |-> 0] :
                 schedule \in {"on", "off"},
                 times \in { <<60, 120>>, <<720, 780>>, <<1380, 60>> },
                 percent \in {80, 100} }
    IN  /\ \E minutes_now \in TickTimes : base = TickBase(minutes_now)
        /\ conf \in TickConfigs
        /\ charge_window_best \in TickChargePlans
        /\ discharge_window_best \in TickDischargePlans
        /\ discharge_enable_best = [n \in 1..Len(discharge_window_best) |-> TRUE]
        /\ charge_limit_percent_best = [n \in 1..Len(charge_window_best) |-> 80]
        /\ inverter \in TickInverters
        /\ tick = [pc |-> "start", acked |-> FALSE, writes |-> 0]
        /\ args = SimArgs([charge_limit |-> <<>>, charge_window |-> <<>>,
                           discharge_window |-> <<>>, discharge_enable |-> <<>>],
                          EmptyDict, EmptyDict, "none")
        /\ sim = SimStart(base, args)
        /\ charge_limit_best = <<>>
        /\ pred = [pc |-> "idle"]
        /\ CalcIdle

NextTick == UpdatePred

SpecTick == InitTick /\ [][NextTick]_vars

-----------------------------------------------------------------------------
(* Claims about the programming of the inverter *)

C6_ForceDischargeInsideWindow ==
    (/\ tick.pc \in {"done", "raised"}
     /\ conf.charge_enable
     /\ conf.set_discharge_window
     /\ discharge_window_best # <<>>)
        => /\ \A n \in 1..Len(tick.calls) :
                 (tick.calls[n].op = "adjust_force_discharge"
                    /\ tick.calls[n].writes > 0
                    /\ inverter.discharge_start_time
                          = TimeStr(discharge_window_best[1].start)
                    /\ tick.acked)
                     => (discharge_window_best[1].start - base.minutes_now)
                            <= conf.set_window_minutes
           /\ (/\ base.minutes_now >= discharge_window_best[1].start
               /\ base.minutes_now < discharge_window_best[1].end
               /\ discharge_enable_best[1]
               /\ tick.acked)
                  => /\ inverter.inverter_mode = "Timed Export"
                     /\ tick.status = "Discharging"

\* C7: adjust_charge_window is called only when the planned end has not
\* passed and the run is within set_window_minutes of the planned start, or
\* of the configured start while the configured window has not ended
C7_ChargeWindowProgrammedOnlyNearStart ==
    (tick.pc \in {"done", "raised"}
       /\ \E n \in 1..Len(tick.calls) : tick.calls[n].op = "adjust_charge_window")
        => /\ charge_window_best # <<>>
           /\ base.minutes_now
                 < CombineEnd(charge_window_best, 1, charge_window_best[1].end)
           /\ \/ (charge_window_best[1].start - base.minutes_now)
                     <= conf.set_window_minutes
              \/ /\ (tick.configured.charge_start_time_minutes - base.minutes_now)
                        <= conf.set_window_minutes
                 /\ base.minutes_now < tick.configured.charge_end_time_minutes

\* C8: adjust_battery_target is called only within set_soc_minutes of the
\* start of the first planned charge window, whose limit it writes,
\* whatever set_charge_window and the configured window are
C8_TargetWrittenOnlyNearPlannedStart ==
    (tick.pc \in {"done", "raised"}
       /\ \E n \in 1..Len(tick.calls) : tick.calls[n].op = "adjust_battery_target")
        => /\ charge_window_best # <<>>
           /\ base.minutes_now
                 < CombineEnd(charge_window_best, 1, charge_window_best[1].end)
           /\ (charge_window_best[1].start - base.minutes_now)
                 <= conf.set_soc_minutes

-----------------------------------------------------------------------------
(* The helper functions of the planner, each as an operator *)

\* the largest number of windows of a plan handed to a helper
MaxWindows == 3

\* discard_unused_discharge_slots without the merge of touching windows
RECURSIVE DiscardDischargeNoMerge(_, _, _, _, _)
DiscardDischargeNoMerge(enable, windows, window_n, new_enable, new_best) ==
    IF window_n > Len(enable) THEN [new_enable |-> new_enable, new_best |-> new_best]
    ELSE IF enable[window_n]
    THEN DiscardDischargeNoMerge(enable, windows, window_n + 1,
                                 Append(new_enable, TRUE),
                                 Append(new_best, windows[window_n]))
    ELSE DiscardDischargeNoMerge(enable, windows, window_n + 1, new_enable, new_best)

\* the loop of discard_unused_discharge_slots from window window_n on
\* (window_n counts from 1 here, from 0 in the code)
RECURSIVE DiscardDischarge(_, _, _, _, _)
DiscardDischarge(enable, windows, window_n, new_enable, new_best) ==
    IF window_n > Len(enable) THEN [new_enable |-> new_enable, new_best |-> new_best]
    ELSE IF enable[window_n]
    THEN IF /\ new_best # <<>>
            /\ windows[window_n].start = new_best[Len(new_best)].end
         THEN DiscardDischarge(enable, windows, window_n + 1, new_enable,
                  [new_best EXCEPT ![Len(new_best)].end = windows[window_n].end])
         ELSE DiscardDischarge(enable, windows, window_n + 1,
                               Append(new_enable, TRUE),
                               Append(new_best, windows[window_n]))
    ELSE DiscardDischarge(enable, windows, window_n + 1, new_enable, new_best)

\* discard_unused_discharge_slots: the loop runs over the enable list and
\* indexes the window list with it
discard_unused_discharge_slots(discharge_enable_best_, discharge_window_best_) ==
    IF Len(discharge_enable_best_) > Len(discharge_window_best_)
    THEN [raised |-> "IndexError"]
    ELSE DiscardDischarge(discharge_enable_best_, discharge_window_best_, 1, <<>>, <<>>)

\* MAX_CHARGE_LIMITS
MAX_CHARGE_LIMITS == 16

\* dp2 of the quotient num / den of two stored rates (p/kWh); the result is
\* money, stored multiplied by 2000
dp2Ratio(num, den) == 20 * ((100 * num + den - 1) \div den)

\* the locals of find_charge_window before its loop
FindStart(minute) ==
    [minute |-> minute, rate_low_start |-> -1, rate_low_end |-> -1,
     rate_low_average |-> 0, rate_low_rate |-> 0, rate_low_count |-> 0,
     pc |-> "loop"]

\* the same branch with the 30 minute limit of export windows left out
FindInsideUnlimited(f, rate, stop_at, find_high) ==
    IF f.rate_low_start >= 0 /\ dp2(rate * 2000) # dp2(f.rate_low_rate * 2000)
    THEN [f EXCEPT !.rate_low_end = f.minute, !.pc = "break"]
    ELSE IF f.rate_low_start < 0
    THEN [f EXCEPT !.rate_low_start = f.minute,
                   !.rate_low_end = stop_at,
                   !.rate_low_count = 1,
                   !.rate_low_average = rate,
                   !.rate_low_rate = rate,
                   !.minute = f.minute + 1]
    ELSE IF f.rate_low_end > f.minute
    THEN [f EXCEPT !.rate_low_average = f.rate_low_average + rate,
                   !.rate_low_count = f.rate_low_count + 1,
                   !.minute = f.minute + 1]
    ELSE [f EXCEPT !.minute = f.minute + 1]

\* the branch of find_charge_window for a minute whose rate passes the
\* threshold
FindInside(f, rate, stop_at, find_high) ==
    IF f.rate_low_start >= 0 /\ dp2(rate * 2000) # dp2(f.rate_low_rate * 2000)
    THEN [f EXCEPT !.rate_low_end = f.minute, !.pc = "break"]
    ELSE IF find_high /\ f.rate_low_start >= 0 /\ (f.minute - f.rate_low_start) >= 30
    THEN [f EXCEPT !.rate_low_end = f.minute, !.pc = "break"]
    ELSE IF f.rate_low_start < 0
    THEN [f EXCEPT !.rate_low_start = f.minute,
                   !.rate_low_end = stop_at,
                   !.rate_low_count = 1,
                   !.rate_low_average = rate,
                   !.rate_low_rate = rate,
                   !.minute = f.minute + 1]
    ELSE IF f.rate_low_end > f.minute
    THEN [f EXCEPT !.rate_low_average = f.rate_low_average + rate,
                   !.rate_low_count = f.rate_low_count + 1,
                   !.minute = f.minute + 1]
    ELSE [f EXCEPT !.minute = f.minute + 1]

\* one pass through the body of the while loop of find_charge_window
FindStep(b, rates, threshold_rate, find_high, f) ==
    LET stop_at == b.forecast_minutes + 12 * 60
    IN  IF f.minute >= b.forecast_minutes /\ f.rate_low_start < 0
        THEN [f EXCEPT !.pc = "break"]
        ELSE IF f.minute \in DOMAIN rates
        THEN IF \/ ~find_high /\ rates[f.minute] <= threshold_rate
                \/ find_high /\ rates[f.minute] >= threshold_rate
             THEN FindInside(f, rates[f.minute], stop_at, find_high)
             ELSE IF f.rate_low_start >= 0
             THEN [f EXCEPT !.rate_low_end = f.minute, !.pc = "break"]
             ELSE [f EXCEPT !.minute = f.minute + 1]
        ELSE IF f.rate_low_start >= 0 /\ f.rate_low_end >= f.minute
        THEN [f EXCEPT !.rate_low_end = f.minute, !.pc = "break"]
        ELSE [f EXCEPT !.pc = "break"]

\* the while loop of find_charge_window: a pass if the loop is still running
FindPass(b, rates, threshold_rate, find_high, f) ==
    IF f.pc = "loop" /\ f.minute < b.forecast_minutes + 12 * 60
    THEN FindStep(b, rates, threshold_rate, find_high, f)
    ELSE f

\* n blocks of passes; a block of level 0 is one pass, a block of a higher
\* level is 16 blocks of the level below.  (The loop runs up to
\* forecast_minutes + 12 * 60 times; the blocks keep the recursion that
\* unrolls it shallow, and the one-element sets bind the locals after a
\* pass or block as a value, which is then computed once.)
RECURSIVE FindBlock(_, _, _, _, _, _, _)
FindBlock(b, rates, threshold_rate, find_high, f, level, n) ==
    IF n = 0 \/ f.pc # "loop" THEN f
    ELSE CHOOSE r \in
             { FindBlock(b, rates, threshold_rate, find_high, g, level, n - 1) :
                  g \in { IF level = 0
                          THEN FindPass(b, rates, threshold_rate, find_high, f)
                          ELSE FindBlock(b, rates, threshold_rate, find_high, f,
                                         level - 1, 16) } } : TRUE

RECURSIVE FindLoop(_, _, _, _, _)
FindLoop(b, rates, threshold_rate, find_high, f) ==
    IF f.pc = "loop" /\ f.minute < b.forecast_minutes + 12 * 60
    THEN CHOOSE r \in
             { FindLoop(b, rates, threshold_rate, find_high, g) :
                  g \in { FindBlock(b, rates, threshold_rate, find_high, f, 1, 16) } } :
             TRUE
    ELSE f

\* the return statement of find_charge_window
FindReturn(f) ==
    [start |-> f.rate_low_start,
     end |-> f.rate_low_end,
     average |-> IF f.rate_low_count # 0
                 THEN dp2Ratio(f.rate_low_average, f.rate_low_count)
                 ELSE f.rate_low_average]

find_charge_window(b, rates, minute, threshold_rate, find_high) ==
    FindReturn(FindLoop(b, rates, threshold_rate, find_high, FindStart(minute)))

RECURSIVE ScanLoop(_, _, _, _, _, _, _)
\* the same body with a found window put in front of the list
ScanFoundPrepend(b, rates, rate_low_min_window, threshold_rate, find_high, found_rates, window) ==
    IF window.start >= 0
    THEN ScanLoop(b, rates, rate_low_min_window, threshold_rate, find_high,
                  window.end,
                  IF /\ window.end >= b.minutes_now
                     /\ (window.end - window.start) >= rate_low_min_window
                  THEN <<window>> \o found_rates
                  ELSE found_rates)
    ELSE found_rates

\* the body of the while loop of rate_scan_window, given the window found
ScanFound(b, rates, rate_low_min_window, threshold_rate, find_high, found_rates, window) ==
    IF window.start >= 0
    THEN ScanLoop(b, rates, rate_low_min_window, threshold_rate, find_high,
                  window.end,
                  IF /\ window.end >= b.minutes_now
                     /\ (window.end - window.start) >= rate_low_min_window
                  THEN Append(found_rates, window)
                  ELSE found_rates)
    ELSE found_rates

ScanLoop(b, rates, rate_low_min_window, threshold_rate, find_high, minute, found_rates) ==
    IF Len(found_rates) < MAX_CHARGE_LIMITS
    THEN ScanFound(b, rates, rate_low_min_window, threshold_rate, find_high, found_rates,
                   find_charge_window(b, rates, minute, threshold_rate, find_high))
    ELSE found_rates

rate_scan_window(b, rates, rate_low_min_window, threshold_rate, find_high) ==
    ScanLoop(b, rates, rate_low_min_window, threshold_rate, find_high, 0, <<>>)

\* the while loop of rate_minmax from minute on; st holds its locals (the
\* count rate_n is never negative: reading it keeps the evaluation of the
\* locals in step with the loop)
RECURSIVE MinmaxLoop(_, _, _, _)
MinmaxLoop(b, rates, minute, st) ==
    IF ~(minute < b.forecast_minutes) \/ st.rate_n < 0 THEN st
    ELSE IF minute \notin DOMAIN rates THEN MinmaxLoop(b, rates, minute + 1, st)
    ELSE LET rate == rates[minute]
             st1  == IF rate > st.rate_max
                     THEN [st EXCEPT !.rate_max = rate, !.rate_max_minute = minute]
                     ELSE st
             st2  == IF rate < st1.rate_min
                     THEN [st1 EXCEPT !.rate_min = rate, !.rate_min_minute = minute]
                     ELSE st1
         IN  MinmaxLoop(b, rates, minute + 1,
                        [st2 EXCEPT !.rate_average = @ + rate, !.rate_n = @ + 1])

\* rate_minmax: the rates it returns are held in hundredths of a penny,
\* dp2 being the ceiling to a hundredth
rate_minmax(b, rates) ==
    LET st == MinmaxLoop(b, rates, 0,
                         [rate_min |-> 99999, rate_min_minute |-> 0,
                          rate_max_minute |-> 0, rate_max |-> 0,
                          rate_average |-> 0, rate_n |-> 0])
    IN  [rate_min |-> 100 * st.rate_min,
         rate_max |-> 100 * st.rate_max,
         rate_average |-> IF st.rate_n # 0
                          THEN (100 * st.rate_average + st.rate_n - 1) \div st.rate_n
                          ELSE 100 * st.rate_average,
         rate_min_minute |-> st.rate_min_minute,
         rate_max_minute |-> st.rate_max_minute]

\* rate_replicate with the loop run to the end of the forecast only
ReplicateToForecast(b, rates) ==
    [minute \in DOMAIN rates \cup (0..(b.forecast_minutes - 1)) |->
        IF minute \in DOMAIN rates THEN rates[minute]
        ELSE IF minute % (24 * 60) \in DOMAIN rates THEN rates[minute % (24 * 60)]
        ELSE b.metric_house]

\* rate_replicate: the dict after the loop.  A minute that is missing is
\* filled from the same minute of the first day; when the loop reaches a
\* missing minute of a later day the minute of the first day has already
\* been visited, so it holds its rate or the dummy rate metric_house.
rate_replicate(b, rates) ==
    [minute \in DOMAIN rates \cup (0..(b.forecast_minutes + 24 * 60 - 1)) |->
        IF minute \in DOMAIN rates THEN rates[minute]
        ELSE IF minute % (24 * 60) \in DOMAIN rates THEN rates[minute % (24 * 60)]
        ELSE b.metric_house]

\* the largest key of a dict
MaxKey(data) == CHOOSE k \in DOMAIN data : \A j \in DOMAIN data : j <= k

\* the loop of clean_incrementing_reverse with every step added to the
\* increment, resets included
RECURSIVE CleanLoopNoReset(_, _, _, _, _)
CleanLoopNoReset(data, index, last, increment, new_data) ==
    LET length == Cardinality(DOMAIN data)
        rindex == length - index - 1
    IN  IF index >= length THEN new_data
        ELSE IF rindex \notin DOMAIN data THEN [raised |-> "KeyError"]
        ELSE CleanLoopNoReset(data, index + 1, data[rindex],
                              increment + (data[rindex] - last),
                              (rindex :> (increment + (data[rindex] - last))) @@ new_data)

\* the loop of clean_incrementing_reverse from pass index on: the samples
\* are visited from the oldest (the largest key) to the newest
RECURSIVE CleanLoop(_, _, _, _, _)
CleanLoop(data, index, last, increment, new_data) ==
    LET length == Cardinality(DOMAIN data)
        rindex == length - index - 1
    IN  IF index >= length THEN new_data
        ELSE IF rindex \notin DOMAIN data THEN [raised |-> "KeyError"]
        ELSE IF data[rindex] >= last
        THEN CleanLoop(data, index + 1, data[rindex],
                       increment + (data[rindex] - last),
                       (rindex :> (increment + (data[rindex] - last))) @@ new_data)
        ELSE CleanLoop(data, index + 1, data[rindex], increment,
                       (rindex :> increment) @@ new_data)

\* clean_incrementing_reverse: max() of an empty dict raises ValueError
clean_incrementing_reverse(data) ==
    IF DOMAIN data = {} THEN [raised |-> "ValueError"]
    ELSE CleanLoop(data, 0, data[MaxKey(data)], 0, EmptyDict)

-----------------------------------------------------------------------------
(* SpecCalc: one call of a helper function on an input drawn from a set *)

\* the number of rate slots after which the rate curves of the inputs repeat
MaxSlots == 4

\* a rate curve over the minutes 0..(length - 1) made of slots of 15 minutes
\* that repeat
SlotCurve(slots, length) ==
    [minute \in 0..(length - 1) |-> slots[((minute \div 15) % Len(slots)) + 1]]

\* a curve with the minutes lo..hi taken out
Without(rates, lo, hi) ==
    [minute \in DOMAIN rates \ (lo..hi) |-> rates[minute]]

\* the PredBat fields the rate functions read
ScanBases ==
    { [DefaultBase EXCEPT !.forecast_minutes = forecast_minutes,
                          !.minutes_now = minutes_now] :
         forecast_minutes \in {60, 600}, minutes_now \in {0, 40} }

\* the largest number of samples of a counter curve handed to
\* clean_incrementing_reverse
MaxSamples == 4

CalcInputs ==
    \* the minutes at which the high rate windows of the inputs start and end
    LET CalcDiscardInputs ==
            LET DischargeTimes == {0, 30, 45, 60, 90}
                \* the export rates of the inputs, in p/kWh
                ExportRates == {15}
                \* the high rate windows rate_scan_window can hand over
                DischargeWindows ==
                    { RateWindow(s, e, r) :
                        s \in DischargeTimes, e \in DischargeTimes, r \in ExportRates }
                \* discharge plans: windows in increasing start order that do not
                \* overlap
                DischargePlans ==
                    UNION { { w \in [1..n -> {x \in DischargeWindows : x.start < x.end}] :
                                \A i \in 1..(n - 1) : w[i].end <= w[i + 1].start } :
                            n \in 0..MaxWindows }
            IN  { [op |-> "discard_unused_discharge_slots", pc |-> "call",
                   arg |-> [enable |-> en, windows |-> w], ret |-> <<>>] :
                     w \in DischargePlans,
                     en \in UNION { [1..n -> BOOLEAN] : n \in 0..MaxWindows } }
    IN  \* calls of run_prediction that are repeated with a larger soc_max: a
        \* second battery adds 10 or 20 stored units
        LET CalcSimInputs ==
                { [op |-> "run_prediction", pc |-> "call",
                   arg |-> [base |-> sc.base, args |-> sc.args, more |-> more],
                   ret |-> <<>>, first |-> <<>>] :
                     sc \in ScenariosConfig, more \in {10, 20} }
        IN  \* dense backward curves: keys 0..(n - 1), key 0 the newest sample, the
            \* readings of the counter 0..3 in stored units
            LET CalcCleanInputs ==
                    { [op |-> "clean_incrementing_reverse", pc |-> "call",
                       arg |-> [data |-> data], ret |-> <<>>] :
                         data \in UNION { [0..(n - 1) -> 0..3] : n \in 1..MaxSamples } }
            IN  \* rate curves of 10 and 20 p/kWh: replicated over the forecast and a day
                \* more (import rates), a curve that ends inside the forecast and a curve
                \* with a gap (export rates are scanned as they were read)
                LET CalcScanInputs ==
                        LET ScanCurves(b) ==
                                UNION { { SlotCurve(slots, b.forecast_minutes + 24 * 60),
                                          SlotCurve(slots, 50),
                                          Without(SlotCurve(slots, b.forecast_minutes + 24 * 60), 20, 29) } :
                                        slots \in [1..MaxSlots -> {10, 20}] }
                        IN  UNION { { [op |-> "rate_scan_window", pc |-> "call",
                                       arg |-> [base |-> b, rates |-> rates, rate_low_min_window |-> 5,
                                                threshold_rate |-> threshold_rate, find_high |-> find_high],
                                       ret |-> <<>>] :
                                         rates \in ScanCurves(b), threshold_rate \in {5, 15, 20},
                                         find_high \in BOOLEAN } : b \in ScanBases }
                IN  \* the charge slot configured on the inverter: inside the day, across
                    \* midnight, and with the start equal to the end
                    LET CalcStatusInputs ==
                            LET StatusInverters ==
                                    { [scheduled_charge_enable |-> schedule,
                                       charge_start_time |-> times[1],
                                       charge_end_time |-> times[2],
                                       soc_percent |-> 80,
                                       inverter_mode |-> "Eco",
                                       discharge_start_time |-> 0,
                                       discharge_end_time |-> 0] :
                                         schedule \in {"on", "off"},
                                         times \in { <<60, 120>>, <<1380, 60>>, <<30, 20>>, <<0, 0>>,
                                                     <<720, 720>> } }
                            IN  { [op |-> "update_status", pc |-> "call",
                                   arg |-> [base |-> b, dev |-> dev, conf |-> [charge_enable |-> charge_enable]],
                                   ret |-> <<>>] :
                                     b \in ScanBases \cup {TickBase(0), TickBase(30), TickBase(1430)},
                                     dev \in StatusInverters, charge_enable \in BOOLEAN }
                    IN  \* rate curves as they are read: a day of basic rates, a few slots, a day
                        \* with a gap, and slots that start late and reach into the second day
                        \* (rates read from Octopus start at the first slot published)
                        LET CalcReplicateInputs ==
                                LET From(rates, lo) ==
                                        [minute \in { k \in DOMAIN rates : k >= lo } |-> rates[minute]]
                                    ReplicateCurves ==
                                        UNION { { SlotCurve(slots, 24 * 60),
                                                  SlotCurve(slots, 50),
                                                  Without(SlotCurve(slots, 24 * 60), 20, 29),
                                                  From(SlotCurve(slots, 24 * 60 + 100), 600) } :
                                                slots \in [1..MaxSlots -> {10, 20}] }
                                IN  { [op |-> "rate_replicate", pc |-> "call",
                                       arg |-> [base |-> b, rates |-> rates], ret |-> <<>>, first |-> <<>>] :
                                         b \in {DefaultBase, TickBase(0)} \cup ScanBases,
                                         rates \in ReplicateCurves }
                        IN  \* calls of rate_minmax: curves of negative, zero and positive rates that
                            \* cover the forecast, end inside it, have a gap, or hold no rate at all
                            LET CalcMinmaxInputs ==
                                    { [op |-> "rate_minmax", pc |-> "call",
                                       arg |-> [base |-> [DefaultBase EXCEPT !.forecast_minutes = forecast_minutes],
                                                rates |-> rates],
                                       ret |-> <<>>] :
                                         forecast_minutes \in {30, 60},
                                         rates \in UNION { { SlotCurve(slots, 24 * 60), SlotCurve(slots, 20),
                                                             Without(SlotCurve(slots, 24 * 60), 0, 14), EmptyDict } :
                                                           slots \in [1..MaxSlots -> {-5, 0, 10}] } }
                            IN  \* calls of optimise_discharge from the loop of update_pred: a battery that
                                \* starts at or below the limit of a charge window, one or two discharge
                                \* windows, and the history of a house that is idle or busy in the first
                                \* step
                                LET CalcDischargeInputs ==
                                        { [op |-> "optimise_discharge", pc |-> "call",
                                           arg |-> [base |-> [PlanBase EXCEPT !.soc_kw = soc,
                                                                              !.soc_max = 400,
                                                                              !.reserve = 0,
                                                                              !.charge_enable = charge_enable,
                                                                              !.metric_export = metric_export],
                                                    conf |-> [best_soc_keep |-> keep,
                                                              metric_min_improvement |-> improvement,
                                                              pv_metric10_weight |-> 1,
                                                              rate_min |-> 0],
                                                    plan |-> [try_charge_limit |-> <<300>>,
                                                              charge_window |-> <<Window(5, 10)>>,
                                                              discharge_window |-> windows,
                                                              discharge_enable |-> [n \in 1..Len(windows) |-> FALSE],
                                                              load_minutes |-> load,
                                                              pv_forecast_minute |-> pv,
                                                              pv_forecast_minute10 |-> EmptyDict,
                                                              record_charge_windows |-> Len(windows)],
                                                    window_n |-> window_n],
                                           ret |-> <<>>] :
                                             soc \in {200, 300}, charge_enable \in BOOLEAN, metric_export \in {4, 40},
                                             keep \in {0, 150}, improvement \in {0, 2000},
                                             windows \in { <<Window(0, 5)>>, <<Window(0, 5), Window(10, 15)>> },
                                             window_n \in 0..1,
                                             load \in { EmptyDict,
                                                        BackCurve(LoadLo, DayMinutes + 1, 0, 20),
                                                        BackCurve(LoadLo, DayMinutes + 1, 20, 20) },
                                             pv \in { EmptyDict, FlatCurve(0, MaxSteps * StepMinutes, 40) } }
                                IN  { c \in CalcDiscardInputs : Len(c.arg.enable) = Len(c.arg.windows) }
                                        \cup CalcSimInputs
                                        \cup CalcCleanInputs
                                        \cup CalcScanInputs \cup CalcStatusInputs \cup CalcReplicateInputs
                                        \cup CalcMinmaxInputs
                                        \cup { c \in CalcDischargeInputs : c.arg.window_n < Len(c.arg.plan.discharge_window) }

SimIdle ==
    /\ base = DefaultBase
    /\ args = SimArgs([charge_limit |-> <<>>, charge_window |-> <<>>,
                       discharge_window |-> <<>>, discharge_enable |-> <<>>],
                      EmptyDict, EmptyDict, "none")
    /\ sim = SimStart(base, args)

InitCalc ==
    /\ calc \in CalcInputs
    /\ run = [pc |-> "idle"]
    /\ SimIdle
    /\ PlanIdle
    /\ TickIdle

\* update_pred line 1885: the discharge plan is pruned
CallDiscardDischarge ==
    /\ calc.pc = "call"
    /\ calc.op = "discard_unused_discharge_slots"
    /\ calc' = [calc EXCEPT !.pc = "return",
                            !.ret = discard_unused_discharge_slots(calc.arg.enable,
                                                                   calc.arg.windows)]
    /\ UNCHANGED <<simvars, planvars, tickvars, run>>

\* rate_scan line 1224 and rate_scan_export line 1100
CallRateScanWindow ==
    /\ calc.pc = "call"
    /\ calc.op = "rate_scan_window"
    /\ calc' = [calc EXCEPT !.pc = "return",
                            !.ret = rate_scan_window(calc.arg.base, calc.arg.rates,
                                                     calc.arg.rate_low_min_window,
                                                     calc.arg.threshold_rate,
                                                     calc.arg.find_high)]
    /\ UNCHANGED <<simvars, planvars, tickvars, run>>

\* update_pred line 1767
CallUpdateStatus ==
    /\ calc.pc = "call"
    /\ calc.op = "update_status"
    /\ calc' = [calc EXCEPT !.pc = "return",
                            !.ret = update_status(calc.arg.dev, calc.arg.conf,
                                                  calc.arg.base)]
    /\ UNCHANGED <<simvars, planvars, tickvars, run>>

\* update_pred lines 1700 and 1722
CallRateReplicate ==
    /\ calc.pc = "call"
    /\ calc.op = "rate_replicate"
    /\ calc' = [calc EXCEPT !.pc = "return",
                            !.ret = rate_replicate(calc.arg.base, calc.arg.rates)]
    /\ UNCHANGED <<simvars, planvars, tickvars, run>>

\* rate_replicate applied to the curve it returned
CallRateReplicateAgain ==
    /\ calc.pc = "return"
    /\ calc.op = "rate_replicate"
    /\ calc' = [calc EXCEPT !.pc = "again",
                            !.first = calc.ret,
                            !.ret = rate_replicate(calc.arg.base, calc.ret)]
    /\ UNCHANGED <<simvars, planvars, tickvars, run>>

\* minute_data line 556
CallCleanIncrementing ==
    /\ calc.pc = "call"
    /\ calc.op = "clean_incrementing_reverse"
    /\ calc' = [calc EXCEPT !.pc = "return",
                            !.ret = clean_incrementing_reverse(calc.arg.data)]
    /\ UNCHANGED <<simvars, planvars, tickvars, run>>

\* update_pred line 1844: a simulation of the plan
CallRunPrediction ==
    /\ calc.pc = "call"
    /\ calc.op = "run_prediction"
    /\ calc' = [calc EXCEPT !.pc = "return",
                            !.ret = run_prediction(calc.arg.base, calc.arg.args)]
    /\ UNCHANGED <<simvars, planvars, tickvars, run>>

\* the same simulation for a battery with a larger soc_max
CallRunPredictionMore ==
    /\ calc.pc = "return"
    /\ calc.op = "run_prediction"
    /\ calc' = [calc EXCEPT !.pc = "more",
                            !.first = calc.ret,
                            !.ret = run_prediction(
                                        [calc.arg.base EXCEPT
                                            !.soc_max = calc.arg.base.soc_max + calc.arg.more],
                                        calc.arg.args)]
    /\ UNCHANGED <<simvars, planvars, tickvars, run>>

\* update_pred lines 1879-1883: one window of the discharge search and
\* "self.discharge_enable_best[window_n] = best_discharge"
CallOptimiseDischarge ==
    /\ calc.pc = "call"
    /\ calc.op = "optimise_discharge"
    /\ calc' = [calc EXCEPT !.pc = "return",
                            !.ret = optimise_discharge(calc.arg.base, calc.arg.conf,
                                                       calc.arg.plan, calc.arg.window_n)]
    /\ UNCHANGED <<simvars, planvars, tickvars, run>>

\* rate_scan line 1200 and rate_scan_export line 1090: the rates are
\* summarised
CallRateMinmax ==
    /\ calc.pc = "call"
    /\ calc.op = "rate_minmax"
    /\ calc' = [calc EXCEPT !.pc = "return",
                            !.ret = rate_minmax(calc.arg.base, calc.arg.rates)]
    /\ UNCHANGED <<simvars, planvars, tickvars, run>>

NextCalc ==
    \/ CallRunPrediction
    \/ CallRunPredictionMore
    \/ CallCleanIncrementing
    \/ CallRateReplicate
    \/ CallRateReplicateAgain
    \/ CallDiscardDischarge
    \/ CallRateScanWindow
    \/ CallUpdateStatus
    \/ CallOptimiseDischarge
    \/ CallRateMinmax

SpecCalc == InitCalc /\ [][NextCalc]_vars

-----------------------------------------------------------------------------
(* SpecRun: the timer of initialize, the callbacks it starts, and the order *)
(* in which one run of update_pred reads its inputs and writes its outputs *)

\* the number of times the timers of initialize fire
MaxTicks == 2

\* the loop of download_octopus_rates from pass retry on, given what each
\* call of download_octopus_rates_func does: return rates ("data"), return
\* {} ("empty": the page is not JSON, or holds no usable slot), or raise
\* ("error": requests.get fails, or the JSON has no 'results')
RECURSIVE DownloadLoop(_, _)
DownloadLoop(outcomes, retry) ==
    IF retry >= 3
    THEN [attempts |-> retry, pdata |-> "empty", raised |-> "ValueError"]
    ELSE IF outcomes[retry + 1] = "error"
    THEN [attempts |-> retry + 1, pdata |-> "empty", raised |-> "FetchError"]
    ELSE IF outcomes[retry + 1] = "data"
    THEN [attempts |-> retry + 1, pdata |-> "data", raised |-> "none"]
    ELSE DownloadLoop(outcomes, retry + 1)

download_octopus_rates(outcomes) == DownloadLoop(outcomes, 0)

\* a callback that has just entered update_pred; no download was made
RunStart(cf) ==
    [pc |-> "load", args |-> cf, read |-> {}, written |-> {},
     rate_import |-> FALSE, rate_export |-> FALSE,
     download |-> [attempts |-> 0, pdata |-> "empty", raised |-> "none"],
     outcomes |-> <<>>, calls |-> 0]

\* update_pred lines 1663-1696: the import rates are read, from the
\* configured rates or from the URL
ReadImport(t, outcomes) ==
    IF "rates_import_octopus_url" \in t.args
    THEN LET d == download_octopus_rates(outcomes)
         IN  IF d.raised # "none"
             THEN [t EXCEPT !.pc = "failed", !.download = d, !.outcomes = outcomes]
             ELSE [t EXCEPT !.pc = "scan_import", !.download = d, !.outcomes = outcomes,
                            !.read = t.read \cup {"rate_import"},
                            !.rate_import = TRUE]
    ELSE [t EXCEPT !.pc = "scan_import",
                   !.read = t.read \cup {"rate_import"},
                   !.rate_import = "rates_import" \in t.args]

\* update_pred lines 1698-1704: rate_scan publishes the low rate entities
\* and publish_rates the rates
ScanImport(t) ==
    IF t.rate_import
    THEN [t EXCEPT !.pc = "export",
                   !.written = t.written \cup {"predbat.low_rate_start", "predbat.rates"}]
    ELSE [t EXCEPT !.pc = "export"]

\* update_pred lines 1706-1717
ReadExport(t, outcomes) ==
    IF "rates_export_octopus_url" \in t.args
    THEN LET d == download_octopus_rates(outcomes)
         IN  IF d.raised # "none"
             THEN [t EXCEPT !.pc = "failed", !.download = d, !.outcomes = outcomes]
             ELSE [t EXCEPT !.pc = "scan_export", !.download = d, !.outcomes = outcomes,
                            !.read = t.read \cup {"rate_export"},
                            !.rate_export = TRUE]
    ELSE [t EXCEPT !.pc = "scan_export",
                   !.read = t.read \cup {"rate_export"},
                   !.rate_export = "rates_export" \in t.args]

\* update_pred lines 1719-1741: rate_scan_export and publish_rates, then the
\* cost of today
ScanExport(t) ==
    [t EXCEPT !.pc = "status",
              !.written = t.written
                  \cup (IF t.rate_export
                        THEN {"predbat.high_rate_export_start", "predbat.rates_export"}
                        ELSE {})
                  \cup (IF "import_today" \in t.args /\ t.rate_import
                        THEN {"predbat.cost_today"}
                        ELSE {})]

\* update_pred lines 1844-1890: the base simulation, the optimiser and the
\* simulations of the best plan, each of which publishes its results
Simulate(t) ==
    [t EXCEPT !.pc = "program",
              !.written = t.written \cup {"predbat.metric", "predbat.best_metric",
                                          "predbat.best10_metric"}]

\* update_pred lines 1894-1975: the inverters are programmed (calls is the
\* number of driver operations that wrote) and the status is recorded
ProgramInverters(t, calls) ==
    [t EXCEPT !.pc = "done",
              !.calls = calls,
              !.written = t.written \cup {"predbat.status"}
                              \cup (IF calls > 0 THEN {"inverter"} ELSE {})]

\* the runs of update_pred in progress
Running == { i \in 1..Len(run.threads) : run.threads[i].pc \notin {"done", "failed"} }

\* the app after initialize; the arguments of apps.yaml decide where the
\* rates come from
InitRun ==
    /\ \E import \in {{}, {"rates_import"}, {"rates_import_octopus_url"}},
          export \in {{}, {"rates_export"}, {"rates_export_octopus_url"}},
          today \in {{}, {"import_today"}} :
          run = [pc |-> "started",
                 args |-> {"load_today"} \cup import \cup export \cup today,
                 fired |-> 0, queued |-> 0, threads |-> <<>>]
    /\ calc = [pc |-> "idle"]
    /\ SimIdle
    /\ PlanIdle
    /\ TickIdle

\* initialize lines 2035-2038 and run_time_loop: a timer fires while no
\* callback of the app is running, and run_time_loop enters update_pred
TimerFires ==
    /\ run.fired < MaxTicks
    /\ run.threads = <<>>
    /\ run.queued = 0
    /\ run' = [run EXCEPT !.fired = run.fired + 1,
                          !.threads = <<RunStart(run.args)>>]
    /\ UNCHANGED <<simvars, planvars, tickvars, calc>>

\* a timer fires while a callback is running.  run_time_loop has no guard:
\* the scheduler keeps the callback for the thread of the app (the app is
\* pinned to a thread) ...
TimerFiresQueued ==
    /\ run.fired < MaxTicks
    /\ run.threads # <<>>
    /\ run' = [run EXCEPT !.fired = run.fired + 1,
                          !.queued = run.queued + 1]
    /\ UNCHANGED <<simvars, planvars, tickvars, calc>>

\* ... or runs it on another thread (the app is not pinned)
TimerFiresConcurrent ==
    /\ run.fired < MaxTicks
    /\ run.threads # <<>>
    /\ run' = [run EXCEPT !.fired = run.fired + 1,
                          !.threads = Append(run.threads, RunStart(run.args))]
    /\ UNCHANGED <<simvars, planvars, tickvars, calc>>

\* the thread of the app is free again and takes the callback kept for it
RunQueued ==
    /\ run.queued > 0
    /\ run.threads = <<>>
    /\ run' = [run EXCEPT !.queued = run.queued - 1,
                          !.threads = <<RunStart(run.args)>>]
    /\ UNCHANGED <<simvars, planvars, tickvars, calc>>

\* a run of update_pred reads its rates, downloading them if a URL is given
RunReadRates(i) ==
    /\ i \in Running
    /\ run.threads[i].pc \in {"import", "export"}
    /\ \E outcomes \in [1..3 -> {"data", "empty", "error"}] :
          /\ \/ outcomes = [n \in 1..3 |-> "empty"]
             \/ IF run.threads[i].pc = "import"
                THEN "rates_import_octopus_url" \in run.threads[i].args
                ELSE "rates_export_octopus_url" \in run.threads[i].args
          /\ run' = [run EXCEPT !.threads[i] =
                        IF run.threads[i].pc = "import"
                        THEN ReadImport(run.threads[i], outcomes)
                        ELSE ReadExport(run.threads[i], outcomes)]
    /\ UNCHANGED <<simvars, planvars, tickvars, calc>>

\* a run of update_pred programs the inverters
RunProgram(i) ==
    /\ i \in Running
    /\ run.threads[i].pc = "program"
    /\ \E calls \in 0..1 :
          run' = [run EXCEPT !.threads[i] = ProgramInverters(run.threads[i], calls)]
    /\ UNCHANGED <<simvars, planvars, tickvars, calc>>

\* a run of update_pred takes any other step
RunStep(i) ==
    /\ i \in Running
    /\ run.threads[i].pc \notin {"import", "export", "program"}
    /\ LET t == run.threads[i]
           Read(pc, input) == [t EXCEPT !.pc = pc, !.read = t.read \cup {input}]
           \* line 1657: the load history is read
           next == CASE t.pc = "load" -> Read("import", "load")
                     [] t.pc = "scan_import" -> ScanImport(t)
                     [] t.pc = "scan_export" -> ScanExport(t)
                     \* lines 1743-1779: the options and the status of
                     \* the inverters; 1809-1828; 1830-1841
                     [] t.pc = "status" -> Read("pv", "inverter")
                     [] t.pc = "pv" -> Read("car", "pv")
                     [] t.pc = "car" -> Read("simulate", "car")
                     [] t.pc = "simulate" -> Simulate(t)
       IN  run' = [run EXCEPT !.threads[i] = next]
    /\ UNCHANGED <<simvars, planvars, tickvars, calc>>

\* update_pred returns, or its exception leaves the callback
RunReturn(i) ==
    /\ i \in 1..Len(run.threads)
    /\ run.threads[i].pc \in {"done", "failed"}
    /\ run' = [run EXCEPT !.threads = [n \in 1..(Len(run.threads) - 1) |->
                                          IF n < i THEN run.threads[n]
                                          ELSE run.threads[n + 1]]]
    /\ UNCHANGED <<simvars, planvars, tickvars, calc>>

NextRun ==
    \/ TimerFires
    \/ TimerFiresQueued
    \/ TimerFiresConcurrent
    \/ RunQueued
    \/ \E i \in 1..MaxTicks : RunReadRates(i)
    \/ \E i \in 1..MaxTicks : RunProgram(i)
    \/ \E i \in 1..MaxTicks : RunStep(i)
    \/ \E i \in 1..MaxTicks : RunReturn(i)

SpecRun == InitRun /\ [][NextRun]_vars

-----------------------------------------------------------------------------
(* SpecPoll: one call of Inverter.write_and_poll_option, one action per    *)
(* iteration of its loop.  The device answers each read-back as it likes.  *)

\* the values an option of the inverter can hold (times of day)
PollValues == {0, 60, 90}

\* write_and_poll_option lines 142-143: old_value = "", tries = 12
InitPoll ==
    /\ \E new_value \in PollValues :
          calc = [op |-> "write_and_poll_option", pc |-> "loop",
                  new_value |-> new_value, old_value |-> NoValue,
                  tries |-> PollTries, reads |-> <<>>, warned |-> FALSE]
    /\ run = [pc |-> "idle"]
    /\ SimIdle
    /\ PlanIdle
    /\ TickIdle

PollWriteForever ==
    /\ calc.pc = "loop"
    /\ calc.old_value # calc.new_value
    /\ \E read \in PollValues :
          calc' = [calc EXCEPT !.old_value = read,
                               !.tries = Max2(calc.tries - 1, 1),
                               !.reads = IF Len(calc.reads) < PollTries + 1
                                         THEN Append(calc.reads, read)
                                         ELSE calc.reads]
    /\ UNCHANGED <<simvars, planvars, tickvars, run>>

\* lines 144-148, one iteration: the option is written, and read back after
\* the sleep, whatever the device answers
PollWrite ==
    /\ calc.pc = "loop"
    /\ calc.old_value # calc.new_value /\ calc.tries > 0
    /\ \E read \in PollValues :
          calc' = [calc EXCEPT !.old_value = read,
                               !.tries = calc.tries - 1,
                               !.reads = Append(calc.reads, read)]
    /\ UNCHANGED <<simvars, planvars, tickvars, run>>

\* lines 149-150: the loop is left, and the warning is logged if no try is left
PollReturn ==
    /\ calc.pc = "loop"
    /\ ~(calc.old_value # calc.new_value /\ calc.tries > 0)
    /\ calc' = [calc EXCEPT !.pc = "return", !.warned = calc.tries = 0]
    /\ UNCHANGED <<simvars, planvars, tickvars, run>>

NextPoll ==
    \/ PollWrite
    \/ PollReturn

SpecPoll == InitPoll /\ [][NextPoll]_vars

\* the loop runs by itself: call_service, sleep and get_state return
SpecPollFair == SpecPoll /\ WF_vars(NextPoll)

-----------------------------------------------------------------------------
(* SpecScan: rate_scan_window run pass by pass.  calc holds the locals of  *)
(* the while loop and finds, the windows find_charge_window returned, each *)
(* with the scan position it was called with                               *)

InitScan ==
    /\ LET Bases  == { [DefaultBase EXCEPT !.forecast_minutes = forecast_minutes,
                                           !.minutes_now = minutes_now] :
                          forecast_minutes \in {60, 120}, minutes_now \in {0, 40} }
           \* 10 and 11 p/kWh taking turns every period minutes
           Turns(period, length) ==
               [minute \in 0..(length - 1) |-> 10 + ((minute \div period) % 2)]
           Curves(b) ==
               UNION { { SlotCurve(slots, b.forecast_minutes + 24 * 60),
                         SlotCurve(slots, 50),
                         Without(SlotCurve(slots, b.forecast_minutes + 24 * 60), 20, 29) } :
                       slots \in [1..2 -> {10, 20}] }
                   \cup { Turns(period, b.forecast_minutes + 24 * 60) : period \in {1, 5} }
                   \cup { EmptyDict }
       IN  \E b \in Bases, rate_low_min_window \in {1, 5, 20},
              threshold_rate \in {5, 15, 20}, find_high \in BOOLEAN :
              \E rates \in Curves(b) :
                 calc = [op |-> "rate_scan_window", pc |-> "loop",
                         arg |-> [base |-> b, rates |-> rates,
                                  rate_low_min_window |-> rate_low_min_window,
                                  threshold_rate |-> threshold_rate,
                                  find_high |-> find_high],
                         minute |-> 0, found_rates |-> <<>>, finds |-> <<>>]
    /\ run = [pc |-> "idle"]
    /\ SimIdle
    /\ PlanIdle
    /\ TickIdle

\* the body with the scan position left at the start of the window found
\* (the record of the finds stops after MAX_CHARGE_LIMITS + 1 of them)
ScanBodyFromStart(c, window) ==
    LET kept == /\ window.start >= 0
                /\ window.end >= c.arg.base.minutes_now
                /\ (window.end - window.start) >= c.arg.rate_low_min_window
        find == [position |-> c.minute, start |-> window.start,
                 end |-> window.end, kept |-> kept]
    IN  [c EXCEPT !.pc = IF window.start >= 0 THEN "loop" ELSE "return",
                  !.minute = IF window.start >= 0 THEN window.start ELSE @,
                  !.found_rates = IF kept THEN Append(@, window) ELSE @,
                  !.finds = IF Len(@) <= MAX_CHARGE_LIMITS THEN Append(@, find)
                            ELSE @]

\* the body of "while len(found_rates) < MAX_CHARGE_LIMITS", given the
\* window find_charge_window returned
ScanBody(c, window) ==
    LET kept == /\ window.start >= 0
                /\ window.end >= c.arg.base.minutes_now
                /\ (window.end - window.start) >= c.arg.rate_low_min_window
        find == [position |-> c.minute, start |-> window.start,
                 end |-> window.end, kept |-> kept]
    IN  [c EXCEPT !.pc = IF window.start >= 0 THEN "loop" ELSE "return",
                  !.minute = IF window.start >= 0 THEN window.end ELSE @,
                  !.found_rates = IF kept THEN Append(@, window) ELSE @,
                  !.finds = Append(@, find)]

\* one pass of the loop
ScanPass ==
    /\ calc.pc = "loop"
    /\ Len(calc.found_rates) < MAX_CHARGE_LIMITS
    /\ \E window \in { find_charge_window(calc.arg.base, calc.arg.rates,
                                           calc.minute, calc.arg.threshold_rate,
                                           calc.arg.find_high) } :
          calc' = ScanBody(calc, window)
    /\ UNCHANGED <<simvars, planvars, tickvars, run>>

\* the loop condition fails: "return found_rates"
ScanReturn ==
    /\ calc.pc = "loop"
    /\ ~(Len(calc.found_rates) < MAX_CHARGE_LIMITS)
    /\ calc' = [calc EXCEPT !.pc = "return"]
    /\ UNCHANGED <<simvars, planvars, tickvars, run>>

NextScan == ScanPass \/ ScanReturn

SpecScan == InitScan /\ [][NextScan]_vars

\* the call runs on: a pass follows a pass as long as the loop is not left
SpecScanFair == SpecScan /\ WF_vars(NextScan)

-----------------------------------------------------------------------------

(* Claims about the helper functions, checked under SpecCalc *)

\* the minutes the windows numbered S of a plan cover
Covered(windows, S) == UNION { windows[i].start .. (windows[i].end - 1) : i \in S }

\* C11: given discharge windows in increasing start order that do not
\* overlap, discard_unused_discharge_slots returns an enable list and a
\* window list of equal length, every returned window enabled; the returned
\* windows cover exactly the minutes of the enabled input windows (only
\* enabled windows are returned), they are in increasing order, do not
\* overlap and do not touch (touching enabled neighbours have been merged
\* into one), and the length of every returned window is the sum of the
\* lengths of the enabled input windows it is made of.
C11_DiscardDischargeMerges ==
    (calc.op = "discard_unused_discharge_slots" /\ calc.pc = "return") =>
        LET en == calc.arg.enable
            w == calc.arg.windows
            enabled == { i \in 1..Len(en) : en[i] }
            len == [i \in 1..Len(w) |-> w[i].end - w[i].start]
        IN  /\ DOMAIN calc.ret = {"new_enable", "new_best"}
            /\ Len(calc.ret.new_enable) = Len(calc.ret.new_best)
            /\ \A j \in 1..Len(calc.ret.new_enable) : calc.ret.new_enable[j]
            /\ Covered(calc.ret.new_best, 1..Len(calc.ret.new_best)) = Covered(w, enabled)
            /\ \A j \in 1..(Len(calc.ret.new_best) - 1) :
                   calc.ret.new_best[j].end < calc.ret.new_best[j + 1].start
            /\ \A j \in 1..Len(calc.ret.new_best) :
                   LET out == calc.ret.new_best[j]
                       parts == { i \in enabled : /\ out.start <= w[i].start
                                                  /\ w[i].end <= out.end }
                   IN  /\ parts # {}
                       /\ out.start < out.end
                       /\ out.end - out.start = SumFn(len, parts)

\* a call that drops a disabled window and merges two touching enabled ones
C11_Witness ==
    /\ calc.op = "discard_unused_discharge_slots"
    /\ calc.pc = "return"
    /\ \E i \in 1..Len(calc.arg.enable) : ~calc.arg.enable[i]
    /\ \E i \in 1..(Len(calc.arg.enable) - 1) :
          /\ calc.arg.enable[i] /\ calc.arg.enable[i + 1]
          /\ calc.arg.windows[i].end = calc.arg.windows[i + 1].start
          /\ \E j \in 1..Len(calc.ret.new_best) :
                /\ calc.ret.new_best[j].start = calc.arg.windows[i].start
                /\ calc.ret.new_best[j].end = calc.arg.windows[i + 1].end

\* C12: for every rate curve and threshold, the windows rate_scan_window
\* returns are in strictly increasing start order and none overlaps the one
\* before it (its start is not below the end of the one before), for the low
\* rate scan and for the high rate scan.
C12_ScanWindowsOrdered ==
    (calc.op = "rate_scan_window" /\ calc.pc = "return") =>
        \A n \in 1..(Len(calc.ret) - 1) :
            /\ calc.ret[n].start < calc.ret[n + 1].start
            /\ calc.ret[n].end <= calc.ret[n + 1].start

\* both scans return three windows or more, touching and apart
C12_Witness ==
    /\ calc.op = "rate_scan_window"
    /\ calc.pc = "return"
    /\ Len(calc.ret) >= 3
    /\ \E n \in 1..(Len(calc.ret) - 1) : calc.ret[n].end = calc.ret[n + 1].start
    /\ \E n \in 1..(Len(calc.ret) - 1) : calc.ret[n].end < calc.ret[n + 1].start

\* C13: every window rate_scan_window returns for the high rate scan
\* (find_high set) is at most 30 minutes long, also when the rate stays above
\* the threshold up to the forecast horizon and beyond it.
C13_HighWindowsAtMost30 ==
    (calc.op = "rate_scan_window" /\ calc.pc = "return" /\ calc.arg.find_high) =>
        \A n \in 1..Len(calc.ret) : calc.ret[n].end - calc.ret[n].start <= 30

\* a high rate scan of a curve that is above the threshold from before the
\* forecast horizon to the end of the scan, with a window across the horizon
C13_Witness ==
    /\ calc.op = "rate_scan_window"
    /\ calc.pc = "return"
    /\ calc.arg.find_high
    /\ \A minute \in (calc.arg.base.forecast_minutes - 60)
                        ..(calc.arg.base.forecast_minutes + 12 * 60) :
          /\ minute \in DOMAIN calc.arg.rates
          /\ calc.arg.rates[minute] >= calc.arg.threshold_rate
    /\ \E n \in 1..Len(calc.ret) :
          /\ calc.ret[n].start < calc.arg.base.forecast_minutes
          /\ calc.ret[n].end > calc.arg.base.forecast_minutes
          /\ calc.ret[n].end - calc.ret[n].start = 30

\* C14: every window the system builds has its start before its end: the
\* windows rate_scan_window returns, and the charge windows
\* Inverter.update_status derives from the charge start and end times
\* configured on the inverter, also when the configured times wrap past
\* midnight or are equal.
C14_WindowsStartBeforeEnd ==
    /\ (calc.op = "rate_scan_window" /\ calc.pc = "return") =>
          \A n \in 1..Len(calc.ret) : calc.ret[n].start < calc.ret[n].end
    /\ (calc.op = "update_status" /\ calc.pc = "return") =>
          \A n \in 1..Len(calc.ret.charge_window) :
              calc.ret.charge_window[n].start < calc.ret.charge_window[n].end

\* C15: rate_replicate is complete and idempotent: the curve it returns has
\* a value for every minute from 0 to forecast_minutes + 24 hours (not
\* included), and applying it to that curve returns the same curve.
C15_ReplicateCompleteIdempotent ==
    /\ (calc.op = "rate_replicate" /\ calc.pc \in {"return", "again"}) =>
          \A minute \in 0..(calc.arg.base.forecast_minutes + 24 * 60 - 1) :
              minute \in DOMAIN calc.ret
    /\ (calc.op = "rate_replicate" /\ calc.pc = "again") => calc.ret = calc.first

\* a second application to a curve whose first application copied a rate of
\* the first day, filled a minute with the dummy rate and kept a rate that
\* differs from the one a day earlier
C15_Witness ==
    /\ calc.op = "rate_replicate"
    /\ calc.pc = "again"
    /\ \E minute \in DOMAIN calc.ret \ DOMAIN calc.arg.rates :
          /\ minute % (24 * 60) \in DOMAIN calc.arg.rates
          /\ calc.ret[minute] = calc.arg.rates[minute % (24 * 60)]
    /\ \E minute \in DOMAIN calc.ret \ DOMAIN calc.arg.rates :
          /\ minute % (24 * 60) \notin DOMAIN calc.arg.rates
          /\ calc.ret[minute] = calc.arg.base.metric_house
    /\ \E minute \in DOMAIN calc.arg.rates :
          /\ minute >= 24 * 60
          /\ calc.ret[minute] # calc.ret[minute - 24 * 60]

\* C16: for a dense backward counter curve x (keys 0..n-1, key 0 the
\* newest sample), the per-minute differences value[i] - value[i+1] that
\* get_from_incrementing reads from clean_incrementing_reverse(x) are never
\* negative, and their sum is the net forward increment of x: the sum of the
\* steps of x forward in time, a step down (a reset) counting as zero.
C16_CleanDifferences ==
    (calc.op = "clean_incrementing_reverse" /\ calc.pc = "return") =>
        LET x == calc.arg.data
            n == Cardinality(DOMAIN x)
            steps == 0..(n - 2)
        IN  /\ DOMAIN calc.ret = DOMAIN x
            /\ \A i \in steps : get_from_incrementing(calc.ret, i) >= 0
            /\ SumFn([i \in steps |-> get_from_incrementing(calc.ret, i)], steps)
                  = SumFn([i \in steps |-> Max2(0, x[i] - x[i + 1])], steps)

\* a curve that rises, is reset and rises again
C16_Witness ==
    /\ calc.op = "clean_incrementing_reverse"
    /\ calc.pc = "return"
    /\ \E i \in DOMAIN calc.arg.data :
          /\ (i + 3) \in DOMAIN calc.arg.data
          /\ calc.arg.data[i + 2] > calc.arg.data[i + 3]
          /\ calc.arg.data[i + 1] < calc.arg.data[i + 2]
          /\ calc.arg.data[i] > calc.arg.data[i + 1]
          /\ get_from_incrementing(calc.ret, i + 1) = 0
          /\ get_from_incrementing(calc.ret, i) > 0

\* C17: the simulator is monotone in soc_max: for the same plan, curves,
\* rates and initial charge, a run of run_prediction with a larger soc_max
\* never returns a larger cost metric than the run with the smaller one.
C17_MetricMonotoneInSocMax ==
    (/\ calc.op = "run_prediction"
     /\ calc.pc = "more"
     /\ calc.first.pc = "returned"
     /\ calc.ret.pc = "returned") => calc.ret.metric <= calc.first.metric

-----------------------------------------------------------------------------
(* Claims about a whole run of update_pred, checked under SpecRun *)

\* C18: at most one run of update_pred is in progress at any time: a tick
\* of the run_every timer that fires while the run before it has not
\* finished is skipped; it is neither kept to run later nor run at the same
\* time.
C18_SingleRunSkipsTick ==
    /\ Cardinality(Running) <= 1
    /\ run.queued = 0

\* C19: within a tick nothing is written (no entity state is published and
\* no inverter is written) before every input of the tick has been read:
\* the load history, the rates, the inverter status, the PV forecast and the
\* car charging data.
C19_InputsBeforeOutputs ==
    \* the inputs of a run
    LET AllInputs == {"load", "rate_import", "rate_export", "inverter", "pv", "car"}
    IN  \A i \in 1..Len(run.threads) :
            run.threads[i].written # {} => AllInputs \subseteq run.threads[i].read

\* C20: download_octopus_rates makes at most three fetch attempts and
\* returns the first result that is not empty; it raises only when all three
\* attempts have returned nothing, and then the tick fails without a call
\* that programs the inverter.
C20_DownloadRetries ==
    \A i \in 1..Len(run.threads) :
        LET t == run.threads[i]
        IN  /\ t.download.attempts <= 3
            /\ t.download.pdata = "data" =>
                  /\ t.outcomes[t.download.attempts] = "data"
                  /\ \A n \in 1..(t.download.attempts - 1) : t.outcomes[n] = "empty"
            /\ t.pc = "failed" =>
                  /\ t.download.attempts = 3
                  /\ \A n \in 1..3 : t.outcomes[n] = "empty"
                  /\ t.calls = 0
                  /\ "inverter" \notin t.written

-----------------------------------------------------------------------------
(* Claims about write_and_poll_option, checked under SpecPoll *)

\* C21: write_and_poll_option always terminates; it issues at least one and
\* at most 12 writes, and no write follows a read-back that equals the
\* requested value.
C21_PollTerminatesWithinBudget ==
    /\ [](/\ Len(calc.reads) <= 12
          /\ \A n \in 1..(Len(calc.reads) - 1) : calc.reads[n] # calc.new_value
          /\ calc.pc = "return" => Len(calc.reads) >= 1)
    /\ <>(calc.pc = "return")

\* the call has returned after twelve writes, the last of them after eleven
\* read-backs that did not match
C21_Witness ==
    /\ calc.pc = "return"
    /\ Len(calc.reads) = 12

\* C27: write_and_poll_option logs its "didn't complete" warning exactly
\* when the final read-back differs from the requested value; a write that
\* is acknowledged on any attempt, the twelfth included, logs no warning.
C27_WarnsOnlyWhenUnacknowledged ==
    calc.pc = "return" =>
        (calc.warned <=> calc.reads[Len(calc.reads)] # calc.new_value)

-----------------------------------------------------------------------------
(* Claims about the steps of run_prediction, checked under SpecSim *)

\* C22: in a recorded idle (self-consumption) step whose PV surplus after
\* battery loss exceeds charge_rate * step, the soc rises by no more than
\* charge_rate * step, by exactly that much when the battery has the room,
\* and the soc gain plus the export of the step equals the loss-adjusted
\* surplus.  Stated for the runs without car charging, whose load is the
\* load of the history.
C22_IdleSurplusCapped ==
    [][LET step             == args.step
           minute_absolute  == sim.minute + base.minutes_now
           minute_yesterday == DayMinutes - sim.minute
                                 + DayMinutes * (base.days_previous - 1)
           offs             == 0..(step - 1)
           pv_now           == SumFn([o \in offs |->
                                   DictGet(args.pv_forecast_minute, minute_absolute + o)],
                                   offs)
           load_yesterday   == SumFn([o \in offs |->
                                   get_from_incrementing(args.load_minutes,
                                                         minute_yesterday - o)], offs)
           charge_window_n    == in_charge_window(args.charge_window, minute_absolute)
           discharge_window_n == in_charge_window(args.discharge_window, minute_absolute)
           charging         == /\ base.charge_enable
                               /\ charge_window_n >= 0
                               /\ sim.soc < args.charge_limit[charge_window_n + 1]
           discharging      == /\ discharge_window_n >= 0
                               /\ sim.soc > base.reserve
                               /\ args.discharge_enable[discharge_window_n + 1]
           surplus          == MulLoss(base, pv_now - load_yesterday)
           cap              == base.charge_rate * step
           gain             == sim'.soc - sim.soc
           export           == sim'.export_kwh - sim.export_kwh
       IN  (/\ sim.pc = "loop" /\ sim'.pc = "loop"
            /\ sim'.minute = sim.minute + step
            /\ sim'.record
            /\ ~base.car_charging_hold /\ base.car_charging_rate = 0
            /\ base.reserve <= sim.soc /\ sim.soc <= base.soc_max
            /\ ~charging /\ ~discharging
            /\ surplus > cap)
               => /\ gain <= cap
                  /\ sim.soc + cap <= base.soc_max => gain = cap
                  /\ gain + export = surplus]_vars

\* C23: run_prediction records exactly the steps t with t < end_record,
\* where end_record, counted from now, is the smaller of forecast_minutes
\* and the start of the first charge window that reaches beyond the
\* forecast horizon; with no such window every step of the forecast is
\* recorded, whatever minutes_now is.
C23_RecordsUntilEndRecord ==
    LET horizon    == base.minutes_now + base.forecast_minutes
        beyond     == {n \in 1..Len(args.charge_window) :
                          args.charge_window[n].end > horizon}
        first      == CHOOSE n \in beyond : \A m \in beyond : n <= m
        end_record == IF beyond = {} THEN base.forecast_minutes
                      ELSE Min2(base.forecast_minutes,
                                args.charge_window[first].start - base.minutes_now)
    IN  (sim.pc = "loop" /\ sim.minute > 0)
            => (sim.record <=> (sim.minute - args.step) < end_record)

-----------------------------------------------------------------------------
(* Claims about the searches of the optimiser, checked under SpecPlan *)

C25_DischargeOnlyWhenBetter ==
    (calc.pc = "return" /\ calc.op = "optimise_discharge" /\ calc.ret.pc = "returned")
        => LET off == calc.ret.tries[1]
               on  == calc.ret.tries[2]
               record_windows == calc.arg.plan.record_charge_windows
           IN  calc.ret.best_discharge
                   <=> /\ on.metric * record_windows
                             + calc.arg.conf.metric_min_improvement
                                <= off.metric * record_windows
                       /\ on.soc_min >= calc.arg.conf.best_soc_keep

\* C26: rate_minmax returns the true minimum, maximum and mean (rounded up
\* to 2 decimals) of the rates over [0, forecast_minutes) and minutes at
\* which the minimum and the maximum occur, for every curve, curves of zero
\* or negative rates included, so that min <= average <= max.
C26_MinmaxTrue ==
    (calc.pc = "return" /\ calc.op = "rate_minmax")
        => LET rates == calc.arg.rates
               keys  == {minute \in DOMAIN rates :
                            0 <= minute /\ minute < calc.arg.base.forecast_minutes}
               total == SumFn(rates, keys)
               ret   == calc.ret
           IN  /\ ret.rate_min <= ret.rate_average
               /\ ret.rate_average <= ret.rate_max
               /\ keys # {} =>
                     /\ \A k \in keys : ret.rate_min <= 100 * rates[k]
                     /\ \A k \in keys : ret.rate_max >= 100 * rates[k]
                     /\ ret.rate_min_minute \in keys
                     /\ ret.rate_max_minute \in keys
                     /\ 100 * rates[ret.rate_min_minute] = ret.rate_min
                     /\ 100 * rates[ret.rate_max_minute] = ret.rate_max
                     /\ ret.rate_average * Cardinality(keys) >= 100 * total
                     /\ (ret.rate_average - 1) * Cardinality(keys) < 100 * total

-----------------------------------------------------------------------------
(* Claims about the target SOC and the frozen start, checked under SpecTick *)

\* C28: whenever the run reaches the call of adjust_battery_target, the best
\* charge plan has at least one entry, so that charge_limit_percent_best[0]
\* exists: no run ends with an index error, also not a run whose plan lost
\* all its charge slots and that disabled the charge window before the
\* set_soc_minutes test.
C28_TargetHasPlanEntry ==
    tick.pc \in {"done", "raised"}
        => /\ tick.err # "IndexError"
           /\ (\E n \in 1..Len(tick.calls) :
                  tick.calls[n].op = "adjust_battery_target")
                 => charge_limit_percent_best # <<>>

\* C29: the start is frozen to the configured start only while the
\* configured window runs.  Whenever a run programs a charge window at a
\* time that lies inside the first planned charge window, the start and
\* the end it writes are, as times of day, a window that contains the
\* current time.
C29_FrozenStartContainsNow ==
    (/\ tick.pc \in {"done", "raised"}
     /\ tick.programmed # <<>>
     /\ charge_window_best # <<>>
     /\ base.minutes_now >= charge_window_best[1].start
     /\ base.minutes_now < charge_window_best[1].end)
        => LET start == tick.programmed[1]
               end   == tick.programmed[2]
               now   == base.minutes_now % DayMinutes
           IN  IF start < end THEN start <= now /\ now < end
               ELSE IF end < start THEN now >= start \/ now < end
               ELSE FALSE

-----------------------------------------------------------------------------
(* Claims about the loop of rate_scan_window, checked under SpecScan *)

\* C30: rate_scan_window terminates for every rate curve, threshold and
\* minimum window length.  Every window find_charge_window finds ends after
\* its start and starts at or after the scan position, so the scan position
\* moves forward with every window, kept or not; never more than 16 windows
\* are kept; and the call returns, with 16 kept windows or after a find from
\* a position where no further window starts before the end of the forecast.
C30_ScanTerminates ==
    /\ [](calc.op = "rate_scan_window" =>
            LET a == calc.arg
                Passes(minute) ==
                    \/ ~a.find_high /\ a.rates[minute] <= a.threshold_rate
                    \/ a.find_high /\ a.rates[minute] >= a.threshold_rate
            IN  /\ \A n \in 1..Len(calc.finds) :
                      calc.finds[n].start >= 0 =>
                          /\ calc.finds[n].end > calc.finds[n].start
                          /\ calc.finds[n].start >= calc.finds[n].position
                /\ \A n \in 2..Len(calc.finds) :
                      /\ calc.finds[n].position = calc.finds[n - 1].end
                      /\ calc.finds[n].position > calc.finds[n - 1].position
                /\ Len(calc.finds) > 0 =>
                      calc.minute >= calc.finds[Len(calc.finds)].position
                /\ Len(calc.found_rates) <= MAX_CHARGE_LIMITS
                /\ Len(calc.found_rates) =
                      Cardinality({ n \in 1..Len(calc.finds) : calc.finds[n].kept })
                /\ calc.pc = "return" =>
                      \/ Len(calc.found_rates) = MAX_CHARGE_LIMITS
                      \/ /\ Len(calc.finds) > 0
                         /\ calc.finds[Len(calc.finds)].start < 0
                         /\ \A minute \in calc.minute..(a.base.forecast_minutes - 1) :
                               (\A k \in calc.minute..minute : k \in DOMAIN a.rates)
                                   => ~Passes(minute))
    /\ <>(calc.pc = "return")

\* C30 happens: a scan that returned with 16 kept windows after it found
\* and discarded others
C30_Witness ==
    /\ calc.op = "rate_scan_window"
    /\ calc.pc = "return"
    /\ Len(calc.found_rates) = MAX_CHARGE_LIMITS
    /\ \E n \in 1..Len(calc.finds) :
          calc.finds[n].start >= 0 /\ ~calc.finds[n].kept

====
